---- MODULE Spec2Model ----
(***************************************************************************)
(* Merge (first-sync) strategy of the bookmark synchroniser:               *)
(* MergeSyncProcess.getDiffs and MergeSyncProcess.reconcile, together with *)
(* the collaborators they call (Scanner, Diff, Mappings, Tree), which are  *)
(* modelled from the design document where their code is not part of the   *)
(* sources at hand; and the calls of NextcloudFoldersAdapter that read and *)
(* change the tree it caches.                                              *)
(***************************************************************************)
EXTENDS Integers, Sequences, FiniteSets, TLC

(***************************************************************************)
(* Bounds of the model.                                                    *)
(***************************************************************************)
\* largest number of non-root items in the local tree
MaxLocalItems == 2
\* largest number of non-root items in the server tree
MaxServerItems == 2
\* largest number of non-root items in the local tree of the wider runs
MaxWideItems == 3
\* largest number of folders in either tree of the runs over folders only
MaxFolders == 3
\* number of folders in the local tree of the runs over deeper trees
MaxDeepLocal == 4
\* number of folders in the server tree of the runs over deeper trees
MaxDeepServer == 3
\* largest number of folders the adapter's server holds
MaxAdapterFolders == 2
\* largest number of bookmarks the adapter's server holds
MaxServerBookmarks == 1
\* largest number of folders one bookmark of the server is in
MaxBookmarkFolders == 2
\* largest number of calls made on the adapter
MaxCalls == 3
\* number of calls of the bookmark methods in progress at the same time
MaxJobs == 2

(***************************************************************************)
(* Items and trees (Tree.ts).                                              *)
(***************************************************************************)
\* sentinel id of a tree's root folder
RootId == -1
\* the value of a missing property or a failed lookup (JavaScript undefined)
Undefined == -2

FOLDER == "folder"
BOOKMARK == "bookmark"

CREATE == "CREATE"
UPDATE == "UPDATE"
MOVE == "MOVE"
REMOVE == "REMOVE"
REORDER == "REORDER"

\* no item (null / undefined where an item is expected)
NoItem == [id |-> Undefined, parentId |-> Undefined, type |-> "none", title |-> "", url |-> ""]

\* the root folder of either tree
RootItem == [id |-> RootId, parentId |-> Undefined, type |-> FOLDER, title |-> "", url |-> ""]

\* the contents an item of the model may have: variant, title and (bookmarks) url
Kinds ==
  { [type |-> FOLDER, title |-> "f", url |-> ""],
    [type |-> FOLDER, title |-> "g", url |-> ""],
    [type |-> BOOKMARK, title |-> "s", url |-> "u"],
    [type |-> BOOKMARK, title |-> "t", url |-> "u"] }

Item(id, parentId, kind) ==
  [id |-> id, parentId |-> parentId, type |-> kind.type, title |-> kind.title, url |-> kind.url]

\* Item.canMergeWith: same variant and same identity-neutral content
canMergeWith(a, b) ==
  /\ a.type = b.type
  /\ a.type \in {FOLDER, BOOKMARK}
  /\ IF a.type = BOOKMARK THEN a.url = b.url ELSE a.title = b.title

\* A tree is the sequence of its non-root items in depth-first (pre-)order;
\* the root is implicit.  Index of the item of a variant with an id, 0 if none.
IndexOf(tree, type, id) ==
  LET S == {i \in 1..Len(tree) : tree[i].id = id /\ tree[i].type = type}
  IN IF S = {} THEN 0 ELSE CHOOSE i \in S : TRUE

\* Folder.findItem(type, id) called on a tree's root
findItem(tree, type, id) ==
  IF type = FOLDER /\ id = RootId THEN RootItem
  ELSE LET i == IndexOf(tree, type, id) IN IF i = 0 THEN NoItem ELSE tree[i]

\* Folder.getAncestorsOf(item, tree): the item itself and the folders above
\* it, up to and including the root
RECURSIVE getAncestorsOf(_, _, _)
getAncestorsOf(item, tree, fuel) ==
  IF item = NoItem \/ fuel = 0 THEN {}
  ELSE IF item.id = RootId /\ item.type = FOLDER THEN {item}
  ELSE {item} \cup getAncestorsOf(findItem(tree, FOLDER, item.parentId), tree, fuel - 1)

AncestorsOf(item, tree) == getAncestorsOf(item, tree, Len(tree) + 1)

\* folder.findItem(type, id) called on a folder of the tree: the item of
\* that variant and id inside the folder's subtree, the folder included
findItemIn(tree, folder, type, id) ==
  LET x == findItem(tree, type, id)
  IN IF folder = NoItem \/ x = NoItem THEN NoItem
     ELSE IF \E a \in AncestorsOf(x, tree) : a.id = folder.id /\ a.type = FOLDER
          THEN x ELSE NoItem

\* the items strictly below a folder, in tree order
Subtree(tree, folder) ==
  LET Below(x) == x # folder /\ findItemIn(tree, folder, x.type, x.id) # NoItem
  IN SelectSeq(tree, Below)

\* no folder is its own descendant: every parent chain reaches the root
RECURSIVE ReachesRoot(_, _, _)
ReachesRoot(tree, id, fuel) ==
  IF id = RootId THEN TRUE
  ELSE IF fuel = 0 THEN FALSE
  ELSE LET i == IndexOf(tree, FOLDER, id)
       IN IF i = 0 THEN TRUE ELSE ReachesRoot(tree, tree[i].parentId, fuel - 1)

Acyclic(tree) ==
  \A i \in 1..Len(tree) : ReachesRoot(tree, tree[i].parentId, Len(tree) + 1)

(***************************************************************************)
(* The trees a sync run may start from.                                    *)
(***************************************************************************)
\* the folders a further item may be appended under so that the sequence
\* stays in depth-first order
OpenFolders(tree) ==
  IF tree = <<>> THEN {RootId}
  ELSE LET last == tree[Len(tree)]
       IN {a.id : a \in {b \in AncestorsOf(last, tree) : b.type = FOLDER}} \cup {RootId}

RECURSIVE Shapes(_, _)
Shapes(n, kinds) ==
  IF n = 0 THEN {<<>>}
  ELSE UNION { { Append(t, Item(n, p, k)) : p \in OpenFolders(t), k \in kinds }
               : t \in Shapes(n - 1, kinds) }

RECURSIVE ShapesUpTo(_, _)
ShapesUpTo(n, kinds) ==
  IF n = 0 THEN Shapes(0, kinds) ELSE Shapes(n, kinds) \cup ShapesUpTo(n - 1, kinds)

\* the ways the ids of one side may relate in value to those of the other
Relabel(tree, f) ==
  [i \in 1..Len(tree) |->
     [tree[i] EXCEPT !.id = f[tree[i].id],
                     !.parentId = IF tree[i].parentId = RootId THEN RootId ELSE f[tree[i].parentId]]]

Disjoint(n, shift) == [i \in 1..n |-> i + shift]   \* no value of the other side
Same(n) == [i \in 1..n |-> i]                     \* the same values in the same places
Reversed(n) == [i \in 1..n |-> n + 1 - i]         \* the same values in other places

Relabeled(trees, Ways(_)) ==
  UNION { { Relabel(t, f) : f \in Ways(Len(t)) } : t \in trees }

\* small trees of every kind of item, ids related in every way
LocalTrees == ShapesUpTo(MaxLocalItems, Kinds)

ServerTrees ==
  Relabeled(ShapesUpTo(MaxServerItems, Kinds),
            LAMBDA n : {Disjoint(n, MaxLocalItems), Same(n), Reversed(n)})

\* a wider local tree: one kind of bookmark, ids of the two sides disjoint
WideKinds == {k \in Kinds : k.title # "t"}

WideLocalTrees == ShapesUpTo(MaxWideItems, WideKinds)

WideServerTrees ==
  Relabeled(ShapesUpTo(MaxServerItems, WideKinds), LAMBDA n : {Disjoint(n, MaxWideItems)})

\* trees of folders only, with the same id values on both sides
FolderKinds == {k \in Kinds : k.type = FOLDER}

LocalFolderTrees == ShapesUpTo(MaxFolders, FolderKinds)

ServerFolderTrees ==
  Relabeled(ShapesUpTo(MaxFolders, FolderKinds), LAMBDA n : {Reversed(n)})

\* deeper trees of folders of one title; the ids of the server's folders are
\* any of the values the local ids take, each used once
DeepKinds == {k \in Kinds : k.type = FOLDER /\ k.title = "f"}

Scattered(n) ==
  {f \in [1..n -> 1..MaxDeepLocal] : \A i \in 1..n, j \in 1..n : i # j => f[i] # f[j]}

DeepLocalTrees == Shapes(MaxDeepLocal, DeepKinds)

DeepServerTrees == Relabeled(Shapes(MaxDeepServer, DeepKinds), Scattered)

(***************************************************************************)
(* The mapping store (Mappings.ts).                                        *)
(***************************************************************************)
Variants == {FOLDER, BOOKMARK}

\* every value an id of the model may take
MaxId ==
  LET S == {MaxLocalItems + MaxServerItems, MaxWideItems + MaxServerItems, 2 * MaxFolders,
            MaxDeepLocal}
  IN CHOOSE m \in S : \A n \in S : n <= m

IdSpace == RootId..MaxId

EmptyMapping == [t \in Variants |-> [i \in IdSpace |-> Undefined]]

\* mapping[type][id], undefined when there is no entry
Lookup(mapping, type, id) ==
  IF type \in Variants /\ id \in IdSpace THEN mapping[type][id] ELSE Undefined

\* Mappings.add: both directions are written, an earlier entry under the
\* same key is overwritten silently
AddPair(st, w) ==
  [LocalToServer |-> [st.LocalToServer EXCEPT ![w.type][w.localId] = w.remoteId],
   ServerToLocal |-> [st.ServerToLocal EXCEPT ![w.type][w.remoteId] = w.localId]]

\* addMapping(resource, item, newId): the write it asks the store for.  Called
\* with the server as resource, item is the local item and newId the server
\* id; called with the local tree as resource, it is the other way round.
addMapping(resource, item, newId) ==
  IF resource = "server"
  THEN [type |-> item.type, localId |-> item.id, remoteId |-> newId]
  ELSE [type |-> item.type, localId |-> newId, remoteId |-> item.id]

\* the roots are paired by convention
RootStore == AddPair([LocalToServer |-> EmptyMapping, ServerToLocal |-> EmptyMapping],
                     [type |-> FOLDER, localId |-> RootId, remoteId |-> RootId])

RECURSIVE AddAll(_, _)
AddAll(st, ws) == IF ws = <<>> THEN st ELSE AddAll(AddPair(st, Head(ws)), Tail(ws))

\* the stores an earlier sync may have left: one-to-one pairings of items
\* of the same variant
PriorStores(lt, st) ==
  LET Cand == {p \in (1..Len(lt)) \X (1..Len(st)) : lt[p[1]].type = st[p[2]].type}
      OneToOne(P) == \A p \in P, q \in P : (p[1] = q[1]) <=> (p[2] = q[2])
      Write(p) == [type |-> lt[p[1]].type, localId |-> lt[p[1]].id, remoteId |-> st[p[2]].id]
      RECURSIVE Build(_)
      Build(P) == IF P = {} THEN RootStore
                  ELSE LET p == CHOOSE q \in P : TRUE IN AddPair(Build(P \ {p}), Write(p))
  IN { Build(P) : P \in {Q \in SUBSET Cand : OneToOne(Q)} }

\* the stores an earlier sync has left when it has paired the folders of one
\* tree one to one with folders of the other, as many as there are, and
\* nothing else
PairedFolderStores(lt, st) ==
  LET L == {i \in 1..Len(lt) : lt[i].type = FOLDER}
      S == {j \in 1..Len(st) : st[j].type = FOLDER}
      most == IF Cardinality(L) <= Cardinality(S) THEN Cardinality(L) ELSE Cardinality(S)
      OneToOne(P) == \A p \in P, q \in P : (p[1] = q[1]) <=> (p[2] = q[2])
      Write(p) == [type |-> FOLDER, localId |-> lt[p[1]].id, remoteId |-> st[p[2]].id]
      RECURSIVE Build(_)
      Build(P) == IF P = {} THEN RootStore
                  ELSE LET p == CHOOSE q \in P : TRUE IN AddPair(Build(P \ {p}), Write(p))
  IN { Build(P) : P \in {Q \in SUBSET (L \X S) : OneToOne(Q) /\ Cardinality(Q) = most} }

\* the store pairs ids one to one in both directions
Bijective(st) ==
  \A t \in Variants : \A i \in IdSpace :
    /\ st.LocalToServer[t][i] # Undefined
         => Lookup(st.ServerToLocal, t, st.LocalToServer[t][i]) = i
    /\ st.ServerToLocal[t][i] # Undefined
         => Lookup(st.LocalToServer, t, st.ServerToLocal[t][i]) = i

(***************************************************************************)
(* Diff (Diff.ts): an ordered log of actions.                              *)
(***************************************************************************)
Action(type, payload, oldItem) == [type |-> type, payload |-> payload, oldItem |-> oldItem]

\* Diff.commit
commit(diff, action) == Append(diff, action)

\* Diff.getActions(type)
getActions(diff, type) == LET Is(a) == a.type = type IN SelectSeq(diff, Is)

\* one item translated through one direction of a mapping; ids without an
\* entry pass through unchanged
MapItem(mapping, item) ==
  IF item = NoItem THEN NoItem
  ELSE LET id == Lookup(mapping, item.type, item.id)
           parentId == Lookup(mapping, FOLDER, item.parentId)
       IN [item EXCEPT !.id = IF id = Undefined THEN item.id ELSE id,
                       !.parentId = IF parentId = Undefined THEN item.parentId ELSE parentId]

\* Diff.map(mapping, toServer, filter), filter being given as the set of
\* action types it lets through
MapDiff(diff, mapping, types) ==
  [i \in 1..Len(diff) |->
     IF diff[i].type \in types
     THEN [diff[i] EXCEPT !.payload = MapItem(mapping, diff[i].payload),
                          !.oldItem = MapItem(mapping, diff[i].oldItem)]
     ELSE diff[i]]

(***************************************************************************)
(* Scanner (Scanner.ts): the log of actions that turns oldTree into        *)
(* newTree.  Items are matched by id first; an item of newTree without a   *)
(* partner of its id is offered, through mergeFn, the unmatched items of   *)
(* oldTree in depth-first order.                                           *)
(***************************************************************************)
\* the merge predicate handed to localScanner
LocalMergeFn(serverItem, localItem) ==
  localItem.type = serverItem.type /\ canMergeWith(serverItem, localItem)

\* the merge predicate handed to serverScanner
ServerMergeFn(localItem, serverItem) ==
  serverItem.type = localItem.type /\ canMergeWith(serverItem, localItem)

\* the merge predicate handed to the sub-scanners of reconcile
SubMergeFn(oldItem, newItem) ==
  oldItem.type = newItem.type /\ canMergeWith(oldItem, newItem)

MergeFn(which, oldItem, newItem) ==
  CASE which = "local" -> LocalMergeFn(oldItem, newItem)
    [] which = "server" -> ServerMergeFn(oldItem, newItem)
    [] OTHER -> SubMergeFn(oldItem, newItem)

\* index of an item's parent in its tree, 0 when the parent is the root of the scan
ParentIndex(tree, i) == IndexOf(tree, FOLDER, tree[i].parentId)

SameContent(a, b) == a.title = b.title /\ a.url = b.url

\* the items of oldTree that have a partner of the same id and variant in newTree
MatchedById(oldTree, newTree) ==
  {k \in 1..Len(oldTree) : IndexOf(newTree, oldTree[k].type, oldTree[k].id) # 0}

Min(S) == CHOOSE x \in S : \A y \in S : x <= y

\* One item of newTree, in walk order.  acc.match[j] is the index in oldTree
\* of the partner of newTree[j], or 0 when newTree[j] is created.
ScanItem(which, oldTree, oldRoot, newTree, i, acc) ==
  LET n == newTree[i]
      pj == ParentIndex(newTree, i)
      parentCreated == pj # 0 /\ acc.match[pj] = 0
      oldParentId == IF pj = 0 THEN oldRoot
                     ELSE IF parentCreated THEN Undefined
                     ELSE oldTree[acc.match[pj]].id
      byId == IndexOf(oldTree, n.type, n.id)
      offered == {k \in (1..Len(oldTree)) \ (acc.used \cup MatchedById(oldTree, newTree)) :
                    MergeFn(which, oldTree[k], n)}
      k == IF parentCreated THEN 0
           ELSE IF byId # 0 THEN byId
           ELSE IF offered # {} THEN Min(offered)
           ELSE 0
      merged == ~parentCreated /\ byId = 0 /\ offered # {}
      o == IF k = 0 THEN NoItem ELSE oldTree[k]
      moves == IF k # 0 /\ o.parentId # oldParentId THEN <<Action(MOVE, n, o)>> ELSE <<>>
      updates == IF k # 0 /\ ~SameContent(o, n) THEN <<Action(UPDATE, n, o)>> ELSE <<>>
      creates == IF k = 0 THEN <<Action(CREATE, n, NoItem)>> ELSE <<>>
  IN [match |-> Append(acc.match, k),
      used |-> IF k = 0 THEN acc.used ELSE acc.used \cup {k},
      log |-> acc.log \o moves \o updates \o creates,
      pairs |-> IF merged THEN Append(acc.pairs, <<o, n>>) ELSE acc.pairs]

RECURSIVE ScanItems(_, _, _, _, _, _)
ScanItems(which, oldTree, oldRoot, newTree, i, acc) ==
  IF i > Len(newTree) THEN acc
  ELSE ScanItems(which, oldTree, oldRoot, newTree, i + 1,
                 ScanItem(which, oldTree, oldRoot, newTree, i, acc))

\* REMOVE for what is left of oldTree, children before parents
RECURSIVE Removals(_, _, _)
Removals(oldTree, used, k) ==
  IF k = 0 THEN <<>>
  ELSE (IF k \in used THEN <<>> ELSE <<Action(REMOVE, oldTree[k], NoItem)>>)
       \o Removals(oldTree, used, k - 1)

\* the matched children of a folder of newTree, as indices into oldTree, in
\* the order newTree has them
ChildPartners(newTree, match, folderId) ==
  LET Idx == SelectSeq([i \in 1..Len(newTree) |-> i],
                       LAMBDA i : newTree[i].parentId = folderId /\ match[i] # 0)
  IN [j \in 1..Len(Idx) |-> match[Idx[j]]]

IsSorted(seq) == \A i \in 1..Len(seq), j \in 1..Len(seq) : i < j => seq[i] < seq[j]

\* REORDER for every paired folder whose surviving children are in another
\* order in newTree than in oldTree
RECURSIVE Reorders(_, _, _, _)
Reorders(newTree, newRootItem, match, j) ==
  IF j > Len(newTree) THEN <<>>
  ELSE LET f == IF j = 0 THEN newRootItem ELSE newTree[j]
           paired == j = 0 \/ (f.type = FOLDER /\ match[j] # 0)
       IN (IF paired /\ ~IsSorted(ChildPartners(newTree, match, f.id))
           THEN <<Action(REORDER, f, NoItem)>> ELSE <<>>)
          \o Reorders(newTree, newRootItem, match, j + 1)

\* Scanner.run(): the diff and, in call order, the pairs mergeFn accepted
Scanner(which, oldTree, oldRootItem, newTree, newRootItem, preserveOrder) ==
  LET acc == ScanItems(which, oldTree, oldRootItem.id, newTree, 1,
                       [match |-> <<>>, used |-> {}, log |-> <<>>, pairs |-> <<>>])
  IN [diff |-> acc.log \o Removals(oldTree, acc.used, Len(oldTree))
                 \o (IF preserveOrder THEN Reorders(newTree, newRootItem, acc.match, 0) ELSE <<>>),
      pairs |-> acc.pairs]

(***************************************************************************)
(* NextcloudFoldersAdapter (src/lib/adapters/NextcloudFolders.ts): the     *)
(* adapter's fields, the tree it caches and what its server can answer.    *)
(* The server root path is left empty, so the cached tree's root is the    *)
(* folder with the sentinel id.                                            *)
(***************************************************************************)
\* bulkImportFolder: the largest folder.count() it accepts
BulkImportLimit == 300

\* the three states of a feature flag
Unknown == "null"
Yes == "true"
No == "false"

\* a Folder or Bookmark of the cached tree: id holds the parts of its id
\* (one part, or the two parts of "id;folder"), parentId is the property of
\* that name, inside is the id of the folder whose children hold the object
Node(type, id, title, url, parentId, inside) ==
  [type |-> type, id |-> id, title |-> title, url |-> url,
   parentId |-> parentId, inside |-> inside]

\* this.tree before getBookmarksTree has run
NoTree == <<Node("none", <<>>, "", "", Undefined, Undefined)>>

\* the adapter after its constructor
Constructed ==
  [tree |-> NoTree, list |-> NoTree,
   hasFeatureChildren |-> Unknown, hasFeatureBulkImport |-> Unknown]

\* no call of the adapter has been made
NoCall == [op |-> "", args |-> <<>>, threw |-> "", value |-> <<>>]

\* what a call leaves behind: its name and arguments, the error it threw
\* ("" if it returned) and the value it returned
Call(op, args, result) ==
  [op |-> op, args |-> args, threw |-> result.threw, value |-> result.value]

Throw(error) == [threw |-> error, value |-> <<>>]
Return(value) == [threw |-> "", value |-> value]

\* position of the folder with this id among the nodes, 0 if there is none
NodeIndex(nodes, id) ==
  LET S == {i \in 1..Len(nodes) : nodes[i].type = FOLDER /\ nodes[i].id = <<id>>}
  IN IF S = {} THEN 0 ELSE CHOOSE i \in S : \A j \in S : i <= j

\* the folder id is the folder from or lies below it
RECURSIVE Under(_, _, _, _)
Under(nodes, id, from, fuel) ==
  IF id = from THEN TRUE
  ELSE IF id = RootId \/ fuel = 0 THEN FALSE
  ELSE LET i == NodeIndex(nodes, id)
       IN i # 0 /\ Under(nodes, nodes[i].inside, from, fuel - 1)

\* Folder.findFolder(id) called on the folder from: the id of the folder
\* found, Undefined if there is none
findFolder(nodes, from, id) ==
  IF (id = RootId \/ NodeIndex(nodes, id) # 0) /\ Under(nodes, id, from, Len(nodes) + 1)
  THEN id ELSE Undefined

\* the children of a folder are replaced: everything below it leaves the tree
Emptied(nodes, id) ==
  SelectSeq(nodes, LAMBDA n : ~Under(nodes, n.inside, id, Len(nodes) + 1))

\* every object of the tree is reached from the root
AcyclicNodes(nodes) ==
  \A i \in 1..Len(nodes) : Under(nodes, nodes[i].inside, RootId, Len(nodes) + 1)

\* the ids of the folders of the tree, the root's among them
FolderIds(nodes) ==
  {RootId} \cup {nodes[i].id[1] : i \in {j \in 1..Len(nodes) : nodes[j].type = FOLDER}}

(***************************************************************************)
(* sendRequest, lines 850-903.                                             *)
(***************************************************************************)
\* what fetch can do: the timer fires first, the request fails, or a
\* response arrives with an HTTP status and a body
Statuses == {200, 401, 403, 404, 500, 503}
Bodies == {"unparsable", "null", "failure", "success"}
Fetches ==
  {[kind |-> "timeout", status |-> 0, body |-> ""],
   [kind |-> "failure", status |-> 0, body |-> ""]}
  \cup {[kind |-> "response", status |-> s, body |-> b] : s \in Statuses, b \in Bodies}

\* sendRequest without the check of the status the body reports (lines
\* 898-900)
sendRequestUnchecked(fetch, returnRawResponse) ==
  LET timedOut == fetch.kind = "timeout"
  IN IF fetch.kind # "response"
     THEN (IF timedOut THEN Throw("Error016") ELSE Throw("Error017"))
     ELSE IF returnRawResponse THEN Return("response")
     ELSE IF fetch.status = 401 \/ fetch.status = 403 THEN Throw("Error018")
     ELSE IF fetch.status = 503 THEN Throw("Error019")
     ELSE IF fetch.body = "unparsable" THEN Throw("Error020")
     ELSE IF fetch.body = "null" THEN Throw("TypeError")
     ELSE Return("json")

sendRequest(fetch, returnRawResponse) ==
  LET timedOut == fetch.kind = "timeout"
  IN IF fetch.kind # "response"
     THEN (IF timedOut THEN Throw("Error016") ELSE Throw("Error017"))
     ELSE IF returnRawResponse THEN Return("response")
     ELSE IF fetch.status = 401 \/ fetch.status = 403 THEN Throw("Error018")
     ELSE IF fetch.status = 503 THEN Throw("Error019")
     ELSE IF fetch.body = "unparsable" THEN Throw("Error020")
     ELSE IF fetch.body = "null" THEN Throw("TypeError")
     ELSE IF fetch.body # "success" THEN Throw("Nextcloud API error")
     ELSE Return("json")

\* what a request made inside a call of the adapter comes to: "" if it
\* returns the parsed body, the error it throws otherwise; the server of
\* these calls answers with success or cannot be reached
Answers ==
  {f \in Fetches : f.kind = "failure" \/ (f.status = 200 /\ f.body = "success")}
Replies == {sendRequest(f, FALSE).threw : f \in Answers}

(***************************************************************************)
(* The sync lock of NextcloudFoldersAdapter: a file on the server, at a URL *)
(* made of the server url and the server root (lines 103-105).             *)
(***************************************************************************)
\* two adapter instances configured with the same server url and root
Instances == {"a", "b"}

\* obtainLock, line 192: maxTimeout, in milliseconds
maxTimeout == 1800000
\* obtainLock, line 193: base, as a fraction
base == [num |-> 5, den |-> 4]
\* obtainLock, line 194: 1 / Math.log(base), in thousandths
PerLogBase == 4481

\* base ** i * 1000, rounded down
RECURSIVE Backoff(_)
Backoff(i) == IF i = 0 THEN 1000 ELSE (Backoff(i - 1) * base.num) \div base.den

LoopConditionUnscaled(i) ==
  Backoff(i) < maxTimeout

\* line 194: the condition of the loop
LoopCondition(i) ==
  PerLogBase * Backoff(i) < maxTimeout * 1000

\* rStatus before the first check
NoStatus == 0

\* an instance whose onSyncStart has called obtainLock
Starting ==
  [pc |-> "obtainLock", i |-> 0, rStatus |-> NoStatus, checks |-> 0,
   uploaded |-> FALSE, deleted |-> FALSE, lost |-> FALSE, threw |-> "",
   via |-> ""]

(***************************************************************************)
(* The bookmarks of the server, and the calls of createBookmark,           *)
(* updateBookmark, removeBookmark and getBookmarksList that one adapter    *)
(* has in progress at the same time.                                       *)
(***************************************************************************)
\* the calls
Jobs == 1..MaxJobs

\* the urls of the bookmarks; a url is not the string of an id, nor 'list'
Urls == {"u", "v"}

\* the folders bookmarks are put in
Parents == {RootId, 1}

\* the ids the server gives to bookmarks: one to each it starts with, one to
\* each it is asked to create
BookmarkIds == 1..(MaxServerBookmarks + MaxJobs)

\* the keys of bookmarkLock: a url (line 763), String(upstreamId) (lines 802
\* and 835), 'list' (line 246)
Keys == Urls \cup {ToString(id) : id \in BookmarkIds} \cup {"list"}

\* a server without bookmarks
NoBookmarks == [bookmarks |-> <<>>, nextId |-> 1]

\* a call that has not been made
NotCalled ==
  [op |-> "", bm |-> [id |-> 0, oldParentId |-> RootId, url |-> "", parentId |-> RootId],
   at |-> "", caller |-> "", request |-> <<>>, reply |-> <<>>, existing |-> 0,
   got |-> NoTree, left |-> NoTree, posted |-> FALSE, waited |-> FALSE, threw |-> ""]

(***************************************************************************)
(* State of one sync run of MergeSyncProcess.                              *)
(***************************************************************************)
VARIABLES
  run,               \* which run of the sync this is: the first or the one after it
  localTreeRoot,     \* this.localTreeRoot
  serverTreeRoot,    \* this.serverTreeRoot
  preserveOrder,     \* this.preserveOrder
  mappings,          \* this.mappings: the mapping store
  pending,           \* writes addMapping has queued and the store has not applied yet
  pc,                \* where the run is
  localScanner,      \* getDiffs: what localScanner.run() still has to do
  serverScanner,     \* getDiffs: what serverScanner.run() still has to do
  newMappings,       \* getDiffs: the pairs its two merge callbacks have pushed
  localDiff,
  serverDiff,
  mappingsSnapshot,
  serverPlan,
  localPlan,
  next,              \* Parallel.each: 1 before the handlers of a pass start, more after
  tasks,             \* Parallel.each: the handlers suspended in a concurrent creation
  serverTreeExec,    \* the server tree while serverPlan is applied to it
  localTreeExec,     \* the local tree while localPlan is applied to it
  executed,          \* how many actions of serverPlan and of localPlan have been applied
  adapter,           \* the fields of the NextcloudFoldersAdapter
  sent,              \* the requests the adapter's last call has sent
  outcome,           \* the adapter's last call and what came of it
  calls,             \* how many calls have been made on the adapter
  lockFile,          \* the server has a file at the lock URL
  instances,         \* the adapter instances that sync with the same server and root
  server,            \* the bookmarks the server holds and the id it gives out next
  hasFeatureExistenceCheck, \* the adapter's field of this name
  bookmarkLock,      \* the adapter's AsyncLock: for each key, who holds it and who waits
  jobs               \* the calls of the adapter's bookmark methods and where each stands

\* the variables of the sync run
syncVars == <<run, localTreeRoot, serverTreeRoot, preserveOrder, mappings, pending, pc,
              localScanner, serverScanner, newMappings, localDiff, serverDiff,
              mappingsSnapshot, serverPlan, localPlan, next, tasks,
              serverTreeExec, localTreeExec, executed>>

\* the variables of the calls of the bookmark methods, this.list apart
callVars == <<server, hasFeatureExistenceCheck, bookmarkLock, jobs>>

vars == <<run, localTreeRoot, serverTreeRoot, preserveOrder, mappings, pending, pc,
          localScanner, serverScanner, newMappings, localDiff, serverDiff,
          mappingsSnapshot, serverPlan, localPlan, next, tasks,
          serverTreeExec, localTreeExec, executed, adapter, sent, outcome, calls,
          lockFile, instances, server, hasFeatureExistenceCheck, bookmarkLock, jobs>>

NoStore == [LocalToServer |-> EmptyMapping, ServerToLocal |-> EmptyMapping]

\* getDiffs, lines 11-37: both scanners are set up; nothing has run yet
StartOfSync(localTrees, serverTrees, Stores(_, _)) ==
  /\ run = 1
  /\ localTreeRoot \in localTrees
  /\ serverTreeRoot \in serverTrees
  /\ preserveOrder = TRUE
  /\ mappings \in Stores(localTreeRoot, serverTreeRoot)
  /\ pending = <<>>
  /\ pc = "getDiffs"
  /\ localScanner = Scanner("local", serverTreeRoot, RootItem, localTreeRoot, RootItem, preserveOrder)
  /\ serverScanner = Scanner("server", localTreeRoot, RootItem, serverTreeRoot, RootItem, preserveOrder)
  /\ newMappings = <<>>
  /\ localDiff = <<>>
  /\ serverDiff = <<>>
  /\ mappingsSnapshot = NoStore
  /\ serverPlan = <<>>
  /\ localPlan = <<>>
  /\ next = 0
  /\ tasks = {}
  /\ serverTreeExec = serverTreeRoot
  /\ localTreeExec = localTreeRoot
  /\ executed = [server |-> 0, local |-> 0]
  /\ sent = <<>>
  /\ outcome = NoCall
  /\ calls = 0
  /\ lockFile = FALSE
  /\ instances = [n \in Instances |-> Starting]

\* the same, with an adapter that has just been constructed (lines 52-58)
Start(localTrees, serverTrees, Stores(_, _)) ==
  /\ StartOfSync(localTrees, serverTrees, Stores)
  /\ adapter = Constructed
  /\ server = NoBookmarks
  /\ hasFeatureExistenceCheck = FALSE
  /\ bookmarkLock = [k \in Keys |-> <<>>]
  /\ jobs = [j \in Jobs |-> NotCalled]

\* a run over small trees and any store an earlier sync may have left
Init == Start(LocalTrees, ServerTrees, PriorStores)

\* a run after an earlier sync that has paired every folder: over a wider
\* local tree, or over trees of folders
InitWide ==
  \/ Start(WideLocalTrees, WideServerTrees, PairedFolderStores)
  \/ Start(LocalFolderTrees, ServerFolderTrees, PairedFolderStores)

\* a run over small trees, or a run after an earlier sync that has paired
\* every folder of the server, over deeper trees of folders
InitDeep ==
  \/ Start(LocalTrees, ServerTrees, PriorStores)
  \/ Start(DeepLocalTrees, DeepServerTrees, PairedFolderStores)

(***************************************************************************)
(* getDiffs                                                                *)
(***************************************************************************)
\* lines 12-24 and 38: localScanner.run(); every pair its merge callback
\* (lines 15-21) accepts is pushed, in the order of the walk
LocalScannerRun ==
  /\ pc = "getDiffs"
  /\ localScanner.pairs # <<>>
  /\ newMappings' = newMappings \o [i \in 1..Len(localScanner.pairs) |->
                                       LET serverItem == localScanner.pairs[i][1]
                                           localItem == localScanner.pairs[i][2]
                                       IN <<localItem, serverItem>>]
  /\ localScanner' = [localScanner EXCEPT !.pairs = <<>>]
  /\ UNCHANGED <<server, hasFeatureExistenceCheck, bookmarkLock, jobs,
               lockFile, instances, adapter, sent, outcome, calls, run, localTreeRoot, serverTreeRoot, preserveOrder, mappings, pending, pc,
                 serverScanner, localDiff, serverDiff, mappingsSnapshot, serverPlan,
                 localPlan, next, tasks,
                 serverTreeExec, localTreeExec, executed>>

\* lines 25-37 and 38: serverScanner.run(); every pair its merge callback
\* (lines 28-34) accepts is pushed, in the order of the walk
ServerScannerRun ==
  /\ pc = "getDiffs"
  /\ serverScanner.pairs # <<>>
  /\ newMappings' = newMappings \o [i \in 1..Len(serverScanner.pairs) |->
                                       LET localItem == serverScanner.pairs[i][1]
                                           serverItem == serverScanner.pairs[i][2]
                                       IN <<localItem, serverItem>>]
  /\ serverScanner' = [serverScanner EXCEPT !.pairs = <<>>]
  /\ UNCHANGED <<server, hasFeatureExistenceCheck, bookmarkLock, jobs,
               lockFile, instances, adapter, sent, outcome, calls, run, localTreeRoot, serverTreeRoot, preserveOrder, mappings, pending, pc,
                 localScanner, localDiff, serverDiff, mappingsSnapshot, serverPlan,
                 localPlan, next, tasks,
                 serverTreeExec, localTreeExec, executed>>

\* a queued write, tagged with the handler that awaits it (0: nobody does)
Queued(w, owner) == [type |-> w.type, localId |-> w.localId, remoteId |-> w.remoteId, owner |-> owner]

\* lines 39-41: addMapping is called for every pushed pair; the callback
\* returns nothing, so Promise.all has no promise of addMapping to wait for
PersistNewMappings(pairs) ==
  [i \in 1..Len(pairs) |-> Queued(addMapping("server", pairs[i][1], pairs[i][2].id), 0)]

\* lines 38-42: both scans are over, the pairings are handed to the store
\* and the diffs are returned
GetDiffsReturn ==
  /\ pc = "getDiffs"
  /\ localScanner.pairs = <<>>
  /\ serverScanner.pairs = <<>>
  /\ localDiff' = localScanner.diff
  /\ serverDiff' = serverScanner.diff
  /\ pending' = pending \o PersistNewMappings(newMappings)
  /\ pc' = "reconcile"
  /\ UNCHANGED <<server, hasFeatureExistenceCheck, bookmarkLock, jobs,
               lockFile, instances, adapter, sent, outcome, calls, run, localTreeRoot, serverTreeRoot, preserveOrder, mappings, localScanner,
                 serverScanner, newMappings, mappingsSnapshot, serverPlan, localPlan,
                 next, tasks,
                 serverTreeExec, localTreeExec, executed>>

(***************************************************************************)
(* The mapping store at work.                                              *)
(***************************************************************************)
\* the store applies the oldest queued write; the addMapping call that
\* asked for it completes
ApplyWrite ==
  /\ pending # <<>>
  /\ mappings' = AddPair(mappings, Head(pending))
  /\ pending' = Tail(pending)
  /\ tasks' = { IF t.h = Head(pending).owner THEN [t EXCEPT !.inflight = @ - 1] ELSE t
                : t \in tasks }
  /\ UNCHANGED <<server, hasFeatureExistenceCheck, bookmarkLock, jobs,
               lockFile, instances, adapter, sent, outcome, calls, run, localTreeRoot, serverTreeRoot, preserveOrder, pc, localScanner,
                 serverScanner, newMappings, localDiff, serverDiff, mappingsSnapshot,
                 serverPlan, localPlan, next,
                 serverTreeExec, localTreeExec, executed>>

(***************************************************************************)
(* reconcile                                                               *)
(***************************************************************************)
ActionTypes == {CREATE, UPDATE, MOVE, REMOVE, REORDER}

\* Array.prototype.find: index of the first element that satisfies P, 0 if none
FindIndex(seq, P(_)) ==
  LET S == {i \in 1..Len(seq) : P(seq[i])} IN IF S = {} THEN 0 ELSE Min(S)

\* line 46
GetSnapshot ==
  /\ pc = "reconcile"
  /\ mappingsSnapshot' = mappings
  /\ serverPlan' = <<>>
  /\ next' = 1
  /\ pc' = "serverPass"
  /\ UNCHANGED <<server, hasFeatureExistenceCheck, bookmarkLock, jobs,
               lockFile, instances, adapter, sent, outcome, calls, run, localTreeRoot, serverTreeRoot, preserveOrder, mappings, pending,
                 localScanner, serverScanner, newMappings, localDiff, serverDiff,
                 localPlan, tasks,
                 serverTreeExec, localTreeExec, executed>>

\* lines 63-65: index in serverCreations of the concurrent creation, 0 if none
ServerPassConcurrentCreation(action, serverCreations, snapshot) ==
  FindIndex(serverCreations,
            LAMBDA a : /\ action.payload.parentId
                            = Lookup(snapshot.ServerToLocal, FOLDER, a.payload.parentId)
                       /\ canMergeWith(action.payload, a.payload))

\* lines 75, 84 and 159, 169: newMappings of a handler: the pairs its
\* sub-scan has accepted, then the pair of the two created items; each as
\* the write that addMapping(resource, oldItem, newId) asks the store for
NewMappingWrites(resource, pairs, concurrentCreation, action) ==
  [i \in 1..(Len(pairs) + 1) |->
     IF i <= Len(pairs) THEN addMapping(resource, pairs[i][1], pairs[i][2].id)
     ELSE addMapping(resource, concurrentCreation.payload, action.payload.id)]

\* lines 68-87: the writes the handler of a concurrent creation asks for
ServerPassNewMappings(concurrentCreation, action, serverTree, localTree, order) ==
  NewMappingWrites("local",
                   Scanner("sub", Subtree(serverTree, concurrentCreation.payload),
                           concurrentCreation.payload,
                           Subtree(localTree, action.payload), action.payload, order).pairs,
                   concurrentCreation, action)

\* lines 93-104: server MOVE a reverses the hierarchy of the local MOVE action
ServerPassReversal(action, a, snapshot, localTree, serverTree) ==
  LET serverFolder == findItem(serverTree, FOLDER, a.payload.id)
      localFolder == findItem(localTree, FOLDER, action.payload.id)
      localAncestors == AncestorsOf(findItem(localTree, FOLDER, action.payload.parentId), localTree)
      serverAncestors == AncestorsOf(findItem(serverTree, FOLDER, a.payload.parentId), serverTree)
  IN /\ action.payload.type = FOLDER
     /\ a.payload.type = FOLDER
     /\ \E ancestor \in localAncestors :
          findItemIn(serverTree, serverFolder, FOLDER,
                     Lookup(snapshot.LocalToServer, FOLDER, ancestor.id)) # NoItem
     /\ \E ancestor \in serverAncestors :
          findItemIn(localTree, localFolder, FOLDER,
                     Lookup(snapshot.ServerToLocal, FOLDER, ancestor.id)) # NoItem

\* lines 108-111: the action that reverts server MOVE a
Compensation(a, snapshot) ==
  [a EXCEPT !.payload = a.oldItem,
            !.oldItem = [a.payload EXCEPT
                           !.id = Lookup(snapshot.ServerToLocal, a.payload.type, a.payload.id),
                           !.parentId = Lookup(snapshot.ServerToLocal, FOLDER, a.payload.parentId)]]

\* the guard of lines 113-116 without its look at localDiff
IsDuplicateInPlan(payload, plan, diff) ==
  \E i \in 1..Len(plan) : plan[i].type = MOVE /\ plan[i].payload.id = payload.id

\* lines 113-116: a MOVE of the same id is in serverPlan or in localDiff already
IsDuplicate(payload, plan, diff) ==
  \/ \E i \in 1..Len(plan) : plan[i].type = MOVE /\ plan[i].payload.id = payload.id
  \/ \E i \in 1..Len(diff) : diff[i].type = MOVE /\ diff[i].payload.id = payload.id

\* lines 106-123: the reversals are reverted one after the other
RECURSIVE Compensate(_, _, _, _)
Compensate(reversals, plan, diff, snapshot) ==
  IF reversals = <<>> THEN plan
  ELSE LET c == Compensation(Head(reversals), snapshot)
       IN Compensate(Tail(reversals),
                     IF IsDuplicate(c.payload, plan, diff) THEN plan ELSE commit(plan, c),
                     diff, snapshot)

\* ServerPassCommit without the early return of lines 58-61: deletes are executed
ServerPassCommitWithDeletes(plan, action, diff, otherDiff, snapshot, localTree, serverTree) ==
  LET serverCreations == getActions(otherDiff, CREATE)
      serverMoves == getActions(otherDiff, MOVE)
      concurrentHierarchyReversals ==
        SelectSeq(serverMoves,
                  LAMBDA a : ServerPassReversal(action, a, snapshot, localTree, serverTree))
  IN IF action.type = CREATE
        /\ ServerPassConcurrentCreation(action, serverCreations, snapshot) # 0 THEN plan
     ELSE IF action.type = MOVE /\ concurrentHierarchyReversals # <<>>
          THEN commit(Compensate(concurrentHierarchyReversals, plan, diff, snapshot), action)
     ELSE IF action.type = REORDER THEN plan
     ELSE commit(plan, action)

\* ServerPassCommit without the return of line 124: a MOVE that meets a
\* hierarchy reversal goes on to line 133
ServerPassCommitFallingThrough(plan, action, diff, otherDiff, snapshot, localTree, serverTree) ==
  LET serverCreations == getActions(otherDiff, CREATE)
      serverMoves == getActions(otherDiff, MOVE)
      concurrentHierarchyReversals ==
        SelectSeq(serverMoves,
                  LAMBDA a : ServerPassReversal(action, a, snapshot, localTree, serverTree))
  IN IF action.type = REMOVE THEN plan
     ELSE IF action.type = CREATE
             /\ ServerPassConcurrentCreation(action, serverCreations, snapshot) # 0 THEN plan
     ELSE IF action.type = MOVE /\ concurrentHierarchyReversals # <<>>
          THEN commit(commit(Compensate(concurrentHierarchyReversals, plan, diff, snapshot),
                             action), action)
     ELSE IF action.type = REORDER THEN plan
     ELSE commit(plan, action)

\* lines 57-134: serverPlan after the handler of one action of localDiff has
\* run up to its first suspension (a concurrent creation) or to its end
ServerPassCommit(plan, action, diff, otherDiff, snapshot, localTree, serverTree) ==
  LET serverCreations == getActions(otherDiff, CREATE)
      serverMoves == getActions(otherDiff, MOVE)
      concurrentHierarchyReversals ==
        SelectSeq(serverMoves,
                  LAMBDA a : ServerPassReversal(action, a, snapshot, localTree, serverTree))
  IN IF action.type = REMOVE THEN plan
     ELSE IF action.type = CREATE
             /\ ServerPassConcurrentCreation(action, serverCreations, snapshot) # 0 THEN plan
     ELSE IF action.type = MOVE /\ concurrentHierarchyReversals # <<>>
          THEN commit(Compensate(concurrentHierarchyReversals, plan, diff, snapshot), action)
     ELSE IF action.type = REORDER THEN plan
     ELSE commit(plan, action)

\* the handler of a concurrent creation, suspended: what it has still to ask
\* the store for, and how many of its requests the store has not answered
Task(h, todo) == [h |-> h, todo |-> todo, inflight |-> 0]

\* serverPlan after the handlers of a sequence of actions have committed one
\* after the other
RECURSIVE ServerPassCommits(_, _, _, _, _, _, _)
ServerPassCommits(actions, plan, diff, otherDiff, snapshot, localTree, serverTree) ==
  IF actions = <<>> THEN plan
  ELSE ServerPassCommits(Tail(actions),
                         ServerPassCommit(plan, Head(actions), diff, otherDiff, snapshot,
                                          localTree, serverTree),
                         diff, otherDiff, snapshot, localTree, serverTree)

\* ServerPassPlan with a handler that suspends before it looks for a
\* concurrent creation (line 63): the handlers of the CREATEs commit after
\* those of all other actions
ServerPassPlanCreatesLate(n, diff, otherDiff, snapshot, localTree, serverTree) ==
  LET started == SubSeq(diff, 1, n)
  IN ServerPassCommits(SelectSeq(started, LAMBDA a : a.type # CREATE)
                         \o SelectSeq(started, LAMBDA a : a.type = CREATE),
                       <<>>, diff, otherDiff, snapshot, localTree, serverTree)

\* serverPlan once the handlers of the first n actions of localDiff have run
RECURSIVE ServerPassPlan(_, _, _, _, _, _)
ServerPassPlan(n, diff, otherDiff, snapshot, localTree, serverTree) ==
  IF n = 0 THEN <<>>
  ELSE ServerPassCommit(ServerPassPlan(n - 1, diff, otherDiff, snapshot, localTree, serverTree),
                        diff[n], diff, otherDiff, snapshot, localTree, serverTree)

\* the handlers of the server pass that a concurrent creation suspends
ServerPassTasks(diff, otherDiff, snapshot, localTree, serverTree, order) ==
  LET serverCreations == getActions(otherDiff, CREATE)
      cc(i) == IF diff[i].type = CREATE
               THEN ServerPassConcurrentCreation(diff[i], serverCreations, snapshot)
               ELSE 0
  IN { Task(i, ServerPassNewMappings(serverCreations[cc(i)], diff[i], serverTree, localTree, order))
       : i \in {j \in 1..Len(diff) : cc(j) # 0} }

\* lines 57-134: Parallel.each starts the handler of every action of
\* localDiff, in the order of the diff; each runs up to its first suspension
ServerPlanHandlers ==
  /\ pc = "serverPass"
  /\ next = 1
  /\ serverPlan' = ServerPassPlan(Len(localDiff), localDiff, serverDiff, mappingsSnapshot,
                                  localTreeRoot, serverTreeRoot)
  /\ tasks' = ServerPassTasks(localDiff, serverDiff, mappingsSnapshot,
                              localTreeRoot, serverTreeRoot, preserveOrder)
  /\ next' = Len(localDiff) + 2
  /\ UNCHANGED <<server, hasFeatureExistenceCheck, bookmarkLock, jobs,
               lockFile, instances, adapter, sent, outcome, calls, run, localTreeRoot, serverTreeRoot, preserveOrder, mappings, pending, pc,
                 localScanner, serverScanner, newMappings, localDiff, serverDiff,
                 mappingsSnapshot, localPlan,
                 serverTreeExec, localTreeExec, executed>>

\* lines 85-87: Parallel.each with concurrency 1: the next addMapping is
\* called once the one before has completed
ServerPlanAddMapping ==
  /\ pc = "serverPass"
  /\ next > 1
  /\ \E t \in tasks :
       /\ t.todo # <<>>
       /\ t.inflight = 0
       /\ pending' = Append(pending, Queued(Head(t.todo), t.h))
       /\ tasks' = (tasks \ {t}) \cup {[t EXCEPT !.todo = Tail(@), !.inflight = 1]}
  /\ UNCHANGED <<server, hasFeatureExistenceCheck, bookmarkLock, jobs,
               lockFile, instances, adapter, sent, outcome, calls, run, localTreeRoot, serverTreeRoot, preserveOrder, mappings, pc,
                 localScanner, serverScanner, newMappings, localDiff, serverDiff,
                 mappingsSnapshot, serverPlan, localPlan, next,
                 serverTreeExec, localTreeExec, executed>>

AllHandlersDone(n) ==
  /\ next = n + 2
  /\ \A t \in tasks : t.todo = <<>> /\ t.inflight = 0

\* the filter of lines 137 and 216 with CREATE exempted as well
MapFilterWithoutCreate == ActionTypes \ {REORDER, MOVE, CREATE}

\* the filter of lines 137 and 216
MapFilter == ActionTypes \ {REORDER, MOVE}

\* line 137
MapServerPlan ==
  /\ pc = "serverPass"
  /\ AllHandlersDone(Len(localDiff))
  /\ serverPlan' = MapDiff(serverPlan, mappingsSnapshot.LocalToServer, MapFilter)
  /\ localPlan' = <<>>
  /\ tasks' = {}
  /\ next' = 1
  /\ pc' = "localPass"
  /\ UNCHANGED <<server, hasFeatureExistenceCheck, bookmarkLock, jobs,
               lockFile, instances, adapter, sent, outcome, calls, run, localTreeRoot, serverTreeRoot, preserveOrder, mappings, pending,
                 localScanner, serverScanner, newMappings, localDiff, serverDiff,
                 mappingsSnapshot,
                 serverTreeExec, localTreeExec, executed>>

\* lines 147-149: index in localCreations of the concurrent creation, 0 if none
LocalPassConcurrentCreation(action, localCreations, snapshot) ==
  FindIndex(localCreations,
            LAMBDA a : /\ action.payload.parentId
                            = Lookup(snapshot.LocalToServer, FOLDER, a.payload.parentId)
                       /\ canMergeWith(action.payload, a.payload))

\* lines 152-172: the writes the handler of a concurrent creation asks for
LocalPassNewMappings(concurrentCreation, action, serverTree, localTree, order) ==
  NewMappingWrites("server",
                   Scanner("sub", Subtree(localTree, concurrentCreation.payload),
                           concurrentCreation.payload,
                           Subtree(serverTree, action.payload), action.payload, order).pairs,
                   concurrentCreation, action)

\* the test of lines 178-179 for a MOVE of the same item to the same place
ConcurrentMoveSamePlace(action, localMoves, snapshot) ==
  FindIndex(localMoves,
            LAMBDA a : /\ action.payload.id
                            = Lookup(snapshot.LocalToServer, a.payload.type, a.payload.id)
                       /\ action.payload.parentId
                            = Lookup(snapshot.LocalToServer, FOLDER, a.payload.parentId))

\* lines 178-179: index in localMoves of a MOVE of the same item, 0 if none
ConcurrentMove(action, localMoves, snapshot) ==
  FindIndex(localMoves,
            LAMBDA a : action.payload.id
                         = Lookup(snapshot.LocalToServer, a.payload.type, a.payload.id))

\* the test of lines 184-195 with its look at the local ancestors only
LocalPassReversalOneWay(action, a, snapshot, localTree, serverTree) ==
  LET serverFolder == findItem(serverTree, FOLDER, action.payload.id)
      localAncestors == AncestorsOf(findItem(localTree, FOLDER, a.payload.parentId), localTree)
  IN /\ action.payload.type = FOLDER
     /\ a.payload.type = FOLDER
     /\ \E ancestor \in localAncestors :
          findItemIn(serverTree, serverFolder, FOLDER,
                     Lookup(snapshot.LocalToServer, FOLDER, ancestor.id)) # NoItem

\* lines 184-195: local MOVE a reverses the hierarchy of the server MOVE action
LocalPassReversal(action, a, snapshot, localTree, serverTree) ==
  LET serverFolder == findItem(serverTree, FOLDER, action.payload.id)
      localFolder == findItem(localTree, FOLDER, a.payload.id)
      localAncestors == AncestorsOf(findItem(localTree, FOLDER, a.payload.parentId), localTree)
      serverAncestors == AncestorsOf(findItem(serverTree, FOLDER, action.payload.parentId), serverTree)
  IN /\ action.payload.type = FOLDER
     /\ a.payload.type = FOLDER
     /\ \E ancestor \in localAncestors :
          findItemIn(serverTree, serverFolder, FOLDER,
                     Lookup(snapshot.LocalToServer, FOLDER, ancestor.id)) # NoItem
     /\ \E ancestor \in serverAncestors :
          findItemIn(localTree, localFolder, FOLDER,
                     Lookup(snapshot.ServerToLocal, FOLDER, ancestor.id)) # NoItem

\* lines 202-203: index in localUpdates of an UPDATE of the same item, 0 if none
ConcurrentUpdate(action, localUpdates, snapshot) ==
  FindIndex(localUpdates,
            LAMBDA a : action.payload.id
                         = Lookup(snapshot.LocalToServer, a.payload.type, a.payload.id))

\* LocalPassCommit without the early return of lines 209-212: reorderings
\* are committed
LocalPassCommitWithReorders(plan, action, otherDiff, snapshot, localTree, serverTree) ==
  LET localCreations == getActions(otherDiff, CREATE)
      localMoves == getActions(otherDiff, MOVE)
      localUpdates == getActions(otherDiff, UPDATE)
      concurrentHierarchyReversals ==
        SelectSeq(localMoves,
                  LAMBDA a : LocalPassReversal(action, a, snapshot, localTree, serverTree))
  IN IF action.type = REMOVE THEN plan
     ELSE IF action.type = CREATE
             /\ LocalPassConcurrentCreation(action, localCreations, snapshot) # 0 THEN plan
     ELSE IF action.type = MOVE /\ ConcurrentMove(action, localMoves, snapshot) # 0 THEN plan
     ELSE IF action.type = MOVE /\ concurrentHierarchyReversals # <<>> THEN plan
     ELSE IF action.type = UPDATE /\ ConcurrentUpdate(action, localUpdates, snapshot) # 0 THEN plan
     ELSE commit(plan, action)

\* lines 141-214: localPlan after the handler of one action of serverDiff has
\* run up to its first suspension (a concurrent creation) or to its end
LocalPassCommit(plan, action, otherDiff, snapshot, localTree, serverTree) ==
  LET localCreations == getActions(otherDiff, CREATE)
      localMoves == getActions(otherDiff, MOVE)
      localUpdates == getActions(otherDiff, UPDATE)
      concurrentHierarchyReversals ==
        SelectSeq(localMoves,
                  LAMBDA a : LocalPassReversal(action, a, snapshot, localTree, serverTree))
  IN IF action.type = REMOVE THEN plan
     ELSE IF action.type = CREATE
             /\ LocalPassConcurrentCreation(action, localCreations, snapshot) # 0 THEN plan
     ELSE IF action.type = MOVE /\ ConcurrentMove(action, localMoves, snapshot) # 0 THEN plan
     ELSE IF action.type = MOVE /\ concurrentHierarchyReversals # <<>> THEN plan
     ELSE IF action.type = UPDATE /\ ConcurrentUpdate(action, localUpdates, snapshot) # 0 THEN plan
     ELSE IF action.type = REORDER THEN plan
     ELSE commit(plan, action)

\* localPlan once the handlers of the first n actions of serverDiff have run
RECURSIVE LocalPassPlan(_, _, _, _, _, _)
LocalPassPlan(n, diff, otherDiff, snapshot, localTree, serverTree) ==
  IF n = 0 THEN <<>>
  ELSE LocalPassCommit(LocalPassPlan(n - 1, diff, otherDiff, snapshot, localTree, serverTree),
                       diff[n], otherDiff, snapshot, localTree, serverTree)

\* the handlers of the local pass that a concurrent creation suspends
LocalPassTasks(diff, otherDiff, snapshot, localTree, serverTree, order) ==
  LET localCreations == getActions(otherDiff, CREATE)
      cc(i) == IF diff[i].type = CREATE
               THEN LocalPassConcurrentCreation(diff[i], localCreations, snapshot)
               ELSE 0
  IN { Task(i, LocalPassNewMappings(localCreations[cc(i)], diff[i], serverTree, localTree, order))
       : i \in {j \in 1..Len(diff) : cc(j) # 0} }

\* lines 141-214: Parallel.each starts the handler of every action of
\* serverDiff, in the order of the diff; each runs up to its first suspension
LocalPlanHandlers ==
  /\ pc = "localPass"
  /\ next = 1
  /\ localPlan' = LocalPassPlan(Len(serverDiff), serverDiff, localDiff, mappingsSnapshot,
                                localTreeRoot, serverTreeRoot)
  /\ tasks' = LocalPassTasks(serverDiff, localDiff, mappingsSnapshot,
                             localTreeRoot, serverTreeRoot, preserveOrder)
  /\ next' = Len(serverDiff) + 2
  /\ UNCHANGED <<server, hasFeatureExistenceCheck, bookmarkLock, jobs,
               lockFile, instances, adapter, sent, outcome, calls, run, localTreeRoot, serverTreeRoot, preserveOrder, mappings, pending, pc,
                 localScanner, serverScanner, newMappings, localDiff, serverDiff,
                 mappingsSnapshot, serverPlan,
                 serverTreeExec, localTreeExec, executed>>

\* lines 170-172: Parallel.each without a limit: addMapping is called for
\* every pair at once, and the handler waits for all of them
LocalPlanAddMappings ==
  /\ pc = "localPass"
  /\ next > 1
  /\ \E t \in tasks :
       /\ t.todo # <<>>
       /\ pending' = pending \o [i \in 1..Len(t.todo) |-> Queued(t.todo[i], t.h)]
       /\ tasks' = (tasks \ {t}) \cup {[t EXCEPT !.todo = <<>>, !.inflight = Len(t.todo)]}
  /\ UNCHANGED <<server, hasFeatureExistenceCheck, bookmarkLock, jobs,
               lockFile, instances, adapter, sent, outcome, calls, run, localTreeRoot, serverTreeRoot, preserveOrder, mappings, pc,
                 localScanner, serverScanner, newMappings, localDiff, serverDiff,
                 mappingsSnapshot, serverPlan, localPlan, next,
                 serverTreeExec, localTreeExec, executed>>

\* lines 216-218
MapLocalPlan ==
  /\ pc = "localPass"
  /\ AllHandlersDone(Len(serverDiff))
  /\ localPlan' = MapDiff(localPlan, mappingsSnapshot.ServerToLocal, MapFilter)
  /\ tasks' = {}
  /\ pc' = "done"
  /\ UNCHANGED <<server, hasFeatureExistenceCheck, bookmarkLock, jobs,
               lockFile, instances, adapter, sent, outcome, calls, run, localTreeRoot, serverTreeRoot, preserveOrder, mappings, pending,
                 localScanner, serverScanner, newMappings, localDiff, serverDiff,
                 mappingsSnapshot, serverPlan, next,
                 serverTreeExec, localTreeExec, executed>>

(***************************************************************************)
(* The plans applied (the executor downstream of reconcile): each plan, in *)
(* log order, to the tree of its side.                                     *)
(***************************************************************************)
\* UPDATE: the item of the payload's id takes the payload's content
ExecuteUpdate(tree, action) ==
  LET i == IndexOf(tree, action.payload.type, action.payload.id)
  IN IF i = 0 THEN tree
     ELSE [tree EXCEPT ![i].title = action.payload.title, ![i].url = action.payload.url]

\* MOVE: the item of the payload's id goes under the folder of the
\* payload's parentId
ExecuteMove(tree, action) ==
  LET i == IndexOf(tree, action.payload.type, action.payload.id)
  IN IF i = 0 \/ findItem(tree, FOLDER, action.payload.parentId) = NoItem THEN tree
     ELSE [tree EXCEPT ![i].parentId = action.payload.parentId]

Execute(tree, action) ==
  CASE action.type = UPDATE -> ExecuteUpdate(tree, action)
    [] action.type = MOVE -> ExecuteMove(tree, action)
    [] OTHER -> tree

\* the next action of serverPlan is applied to the server tree
ExecuteServerPlan ==
  /\ pc = "done"
  /\ executed.server < Len(serverPlan)
  /\ serverTreeExec' = Execute(serverTreeExec, serverPlan[executed.server + 1])
  /\ executed' = [executed EXCEPT !.server = @ + 1]
  /\ UNCHANGED <<server, hasFeatureExistenceCheck, bookmarkLock, jobs,
               lockFile, instances, adapter, sent, outcome, calls, run, localTreeRoot, serverTreeRoot, preserveOrder, mappings, pending, pc,
                 localScanner, serverScanner, newMappings, localDiff, serverDiff,
                 mappingsSnapshot, serverPlan, localPlan, next, tasks, localTreeExec>>

\* the next action of localPlan is applied to the local tree
ExecuteLocalPlan ==
  /\ pc = "done"
  /\ executed.server = Len(serverPlan)
  /\ executed.local < Len(localPlan)
  /\ localTreeExec' = Execute(localTreeExec, localPlan[executed.local + 1])
  /\ executed' = [executed EXCEPT !.local = @ + 1]
  /\ UNCHANGED <<server, hasFeatureExistenceCheck, bookmarkLock, jobs,
               lockFile, instances, adapter, sent, outcome, calls, run, localTreeRoot, serverTreeRoot, preserveOrder, mappings, pending, pc,
                 localScanner, serverScanner, newMappings, localDiff, serverDiff,
                 mappingsSnapshot, serverPlan, localPlan, next, tasks, serverTreeExec>>

Next ==
  \/ LocalScannerRun
  \/ ServerScannerRun
  \/ GetDiffsReturn
  \/ ApplyWrite
  \/ GetSnapshot
  \/ ServerPlanHandlers
  \/ ServerPlanAddMapping
  \/ MapServerPlan
  \/ LocalPlanHandlers
  \/ LocalPlanAddMappings
  \/ MapLocalPlan
  \/ ExecuteServerPlan
  \/ ExecuteLocalPlan

Spec == Init /\ [][Next]_vars

SpecWide == InitWide /\ [][Next]_vars

SpecDeep == InitDeep /\ [][Next]_vars

(***************************************************************************)
(* The sync run once more: both plans have been applied and the store has  *)
(* taken every queued write; nothing else has touched either tree.         *)
(***************************************************************************)
\* the plans create nothing (a created item gets its id from the side it is
\* created on, which is outside the sources at hand)
NothingCreated == getActions(serverPlan, CREATE) = <<>> /\ getActions(localPlan, CREATE) = <<>>

\* the places in a tree of the children of a folder, in the order the tree
\* has them
ChildPlaces(tree, folderId) ==
  SelectSeq([i \in 1..Len(tree) |-> i], LAMBDA i : tree[i].parentId = folderId)

\* the items at the places of a stack and everything below them, depth first
RECURSIVE Walk(_, _)
Walk(tree, stack) ==
  IF stack = <<>> THEN <<>>
  ELSE LET x == tree[Head(stack)]
           below == IF x.type = FOLDER THEN ChildPlaces(tree, x.id) ELSE <<>>
       IN <<x>> \o Walk(tree, below \o Tail(stack))

\* a tree as its provider hands it over: its items in depth-first order
Loaded(tree) == Walk(tree, ChildPlaces(tree, RootId))

\* getDiffs, lines 11-37, of the second run: over the trees the plans have
\* been applied to, with the mapping store as the first run has left it
SyncAgain ==
  /\ run = 1
  /\ pc = "done"
  /\ executed.server = Len(serverPlan)
  /\ executed.local = Len(localPlan)
  /\ pending = <<>>
  /\ NothingCreated
  /\ Acyclic(localTreeExec)
  /\ Acyclic(serverTreeExec)
  /\ run' = 2
  /\ localTreeRoot' = Loaded(localTreeExec)
  /\ serverTreeRoot' = Loaded(serverTreeExec)
  /\ localTreeExec' = localTreeRoot'
  /\ serverTreeExec' = serverTreeRoot'
  /\ pc' = "getDiffs"
  /\ localScanner' = Scanner("local", serverTreeRoot', RootItem, localTreeRoot', RootItem, preserveOrder)
  /\ serverScanner' = Scanner("server", localTreeRoot', RootItem, serverTreeRoot', RootItem, preserveOrder)
  /\ newMappings' = <<>>
  /\ localDiff' = <<>>
  /\ serverDiff' = <<>>
  /\ mappingsSnapshot' = NoStore
  /\ serverPlan' = <<>>
  /\ localPlan' = <<>>
  /\ next' = 0
  /\ tasks' = {}
  /\ executed' = [server |-> 0, local |-> 0]
  /\ UNCHANGED <<preserveOrder, mappings, pending, adapter, sent, outcome, calls,
                 lockFile, instances, server, hasFeatureExistenceCheck,
                 bookmarkLock, jobs>>

NextTwice == Next \/ SyncAgain

SpecTwice == Init /\ [][NextTwice]_vars

(***************************************************************************)
(* Properties.                                                             *)
(***************************************************************************)
InSeq(x, seq) == \E i \in 1..Len(seq) : seq[i] = x

HasType(diff, type) == \E i \in 1..Len(diff) : diff[i].type = type

\* reconcile has returned its two plans
Returned == pc = "done"

\* both plans have been applied, each to its side
Applied == Returned /\ executed.server = Len(serverPlan) /\ executed.local = Len(localPlan)

\* the store pairs local item l with server item s, in both directions
Paired(st, l, s) ==
  /\ l.type = s.type
  /\ Lookup(st.LocalToServer, l.type, l.id) = s.id
  /\ Lookup(st.ServerToLocal, s.type, s.id) = l.id

Folders(tree) == {tree[i] : i \in {j \in 1..Len(tree) : tree[j].type = FOLDER}}

\* the store pairs every folder of either tree with a folder of the other
TotalFolderMapping(st) ==
  /\ \A x \in Folders(localTreeRoot) : \E y \in Folders(serverTreeRoot) : Paired(st, x, y)
  /\ \A y \in Folders(serverTreeRoot) : \E x \in Folders(localTreeRoot) : Paired(st, x, y)

HasFolderMove(diff) ==
  \E i \in 1..Len(diff) : diff[i].type = MOVE /\ diff[i].payload.type = FOLDER

\* C2: when the folders of the two (acyclic) trees are paired one to one and
\* both diffs move folders, then while serverPlan is applied in log order to
\* the server tree and localPlan in log order to the local tree, no folder
\* ever is its own descendant.
PlansKeepTreesAcyclic ==
  (Returned /\ TotalFolderMapping(mappingsSnapshot)
     /\ HasFolderMove(localDiff) /\ HasFolderMove(serverDiff))
    => (Acyclic(serverTreeExec) /\ Acyclic(localTreeExec))

\* local MOVE mA puts folder A into folder B while server MOVE mB puts the
\* folder paired with B into the folder paired with A
S3Case(mA, mB) ==
  /\ mA.type = MOVE /\ mB.type = MOVE
  /\ mA.payload.type = FOLDER /\ mB.payload.type = FOLDER
  /\ LET B == findItem(localTreeRoot, FOLDER, mA.payload.parentId)
         A2 == findItem(serverTreeRoot, FOLDER, mB.payload.parentId)
     IN /\ B # NoItem /\ B # RootItem /\ A2 # NoItem /\ A2 # RootItem
        /\ Paired(mappingsSnapshot, B, mB.payload)
        /\ Paired(mappingsSnapshot, mA.payload, A2)

\* MOVE m puts the folder that mB has moved back under its parent of before
Restores(m, mB) ==
  m.type = MOVE /\ m.payload.id = mB.oldItem.id /\ m.payload.parentId = mB.oldItem.parentId

\* C3: when localDiff moves folder A into B and serverDiff moves the folder
\* paired with B into the folder paired with A, then, whatever values the
\* ids of the two sides have (the same values on both sides included),
\* serverPlan contains a MOVE that restores B to its parent of before and,
\* after it, the MOVE of A into B, and localPlan contains no MOVE of B.
ReversalRevertedThenApplied ==
  Returned =>
    \A i \in 1..Len(localDiff), j \in 1..Len(serverDiff) :
      S3Case(localDiff[i], serverDiff[j]) =>
        /\ \E k \in 1..Len(serverPlan), l \in 1..Len(serverPlan) :
             k < l /\ Restores(serverPlan[k], serverDiff[j]) /\ serverPlan[l] = localDiff[i]
        /\ \A k \in 1..Len(localPlan) :
             ~(localPlan[k].type = MOVE /\ localPlan[k].payload.id = serverDiff[j].payload.id)

\* localDiff updates item X and serverDiff updates the item the snapshot
\* maps X to
ConcurrentUpdates(uL, uS) ==
  /\ uL.type = UPDATE /\ uS.type = UPDATE
  /\ uS.payload.type = uL.payload.type
  /\ uS.payload.id = Lookup(mappingsSnapshot.LocalToServer, uL.payload.type, uL.payload.id)

Content(tree, type, id) == LET x == findItem(tree, type, id) IN <<x.title, x.url>>

\* C4: when localDiff updates item X and serverDiff updates the item that
\* the snapshot's LocalToServer maps X to, serverPlan contains the local
\* UPDATE with the local content, localPlan contains no UPDATE of X, and
\* once both plans are applied both items have the local content.
LocalUpdateWins ==
  \A i \in 1..Len(localDiff), j \in 1..Len(serverDiff) :
    ConcurrentUpdates(localDiff[i], serverDiff[j]) =>
      LET uL == localDiff[i].payload
          uS == serverDiff[j].payload
      IN /\ Returned =>
              /\ \E k \in 1..Len(serverPlan) :
                   /\ serverPlan[k].type = UPDATE
                   /\ serverPlan[k].payload.type = uL.type
                   /\ serverPlan[k].payload.id = uS.id
                   /\ SameContent(serverPlan[k].payload, uL)
              /\ \A k \in 1..Len(localPlan) :
                   ~(/\ localPlan[k].type = UPDATE
                     /\ localPlan[k].payload.type = uL.type
                     /\ localPlan[k].payload.id = uL.id)
         /\ Applied =>
              /\ Content(serverTreeExec, uS.type, uS.id) = <<uL.title, uL.url>>
              /\ Content(localTreeExec, uL.type, uL.id) = <<uL.title, uL.url>>

\* localDiff creates B_L under folder F, serverDiff creates B_S under the
\* folder the snapshot pairs with F, and the two can be merged
ConcurrentCreates(cL, cS) ==
  /\ cL.type = CREATE /\ cS.type = CREATE
  /\ Paired(mappingsSnapshot, findItem(localTreeRoot, FOLDER, cL.payload.parentId),
                              findItem(serverTreeRoot, FOLDER, cS.payload.parentId))
  /\ canMergeWith(cL.payload, cS.payload)

\* the plan contains the action, as it is or translated
PlannedFrom(action, plan, mapping) ==
  InSeq(action, plan) \/ InSeq(MapDiff(<<action>>, mapping, MapFilter)[1], plan)

\* C5: when localDiff creates B_L under F, serverDiff creates B_S under the
\* folder paired with F and B_L can be merged with B_S, then the CREATE of
\* B_L is not in serverPlan, the CREATE of B_S is not in localPlan, and when
\* reconcile returns the store pairs B_L with B_S.
ConcurrentCreatesPaired ==
  Returned =>
    \A i \in 1..Len(localDiff), j \in 1..Len(serverDiff) :
      ConcurrentCreates(localDiff[i], serverDiff[j]) =>
        /\ ~PlannedFrom(localDiff[i], serverPlan, mappingsSnapshot.LocalToServer)
        /\ ~PlannedFrom(serverDiff[j], localPlan, mappingsSnapshot.ServerToLocal)
        /\ Paired(mappings, localDiff[i].payload, serverDiff[j].payload)

\* C6: once getDiffs and reconcile have run and the store has applied every
\* write it was asked for, the store pairs ids one to one in both
\* directions, for folders and for bookmarks, also when several items of one
\* side can be merged with the same item of the other.
StoreBijectiveAfterReconcile == (Returned /\ pending = <<>>) => Bijective(mappings)

\* C7: the snapshot that reconcile reads misses no pairing that the merge
\* scans of getDiffs have proposed: it has an entry for the local id and for
\* the server id of every proposed pair.
SnapshotHasProposedPairings ==
  pc \notin {"getDiffs", "reconcile"} =>
    \A i \in 1..Len(newMappings) :
      LET localItem == newMappings[i][1]
          serverItem == newMappings[i][2]
      IN /\ Lookup(mappingsSnapshot.LocalToServer, localItem.type, localItem.id) # Undefined
         /\ Lookup(mappingsSnapshot.ServerToLocal, serverItem.type, serverItem.id) # Undefined

\* two proposals of the merge scans are in conflict: the same local id against
\* two server ids, or the same server id against two local ids
Conflict(p, q) ==
  /\ p[1].type = q[1].type
  /\ \/ p[1].id = q[1].id /\ p[2].id # q[2].id
     \/ p[1].id # q[1].id /\ p[2].id = q[2].id

\* C8: when two proposals of the merge scans of getDiffs are in conflict,
\* the store, once it has applied the writes of getDiffs, pairs the items of
\* the proposal that was made first.
FirstProposalWins ==
  (pc = "reconcile" /\ pending = <<>>) =>
    \A i \in 1..Len(newMappings), j \in 1..Len(newMappings) :
      (i < j /\ Conflict(newMappings[i], newMappings[j]))
        => Paired(mappings, newMappings[i][1], newMappings[i][2])

\* the two trees have the same layout and the same content, item by item,
\* and no id of one side is an id of the other
SameLayout ==
  /\ Len(localTreeRoot) = Len(serverTreeRoot)
  /\ \A i \in 1..Len(localTreeRoot) :
       /\ localTreeRoot[i].type = serverTreeRoot[i].type
       /\ SameContent(localTreeRoot[i], serverTreeRoot[i])
       /\ ParentIndex(localTreeRoot, i) = ParentIndex(serverTreeRoot, i)
       /\ \A j \in 1..Len(serverTreeRoot) : localTreeRoot[i].id # serverTreeRoot[j].id

\* the writes getDiffs has asked the store for
Proposed == PersistNewMappings(newMappings)

StoreAfter(k) == AddAll(RootStore, SubSeq(Proposed, 1, k))

\* no earlier sync has left anything in the store: it holds the pair of the
\* roots and what this run has written so far
FirstSync ==
  /\ Len(pending) <= Len(Proposed)
  /\ pending = SubSeq(Proposed, Len(Proposed) - Len(pending) + 1, Len(Proposed))
  /\ mappings = StoreAfter(Len(Proposed) - Len(pending))
  /\ \E j \in 0..(Len(Proposed) - Len(pending)) : mappingsSnapshot = StoreAfter(j)

\* C9: on a first sync of two trees of the same layout and content and of
\* different ids, reconcile returns an empty serverPlan and an empty
\* localPlan, and the store then pairs every local item with its counterpart.
FirstSyncIdentity ==
  (Returned /\ SameLayout /\ FirstSync) =>
    /\ serverPlan = <<>>
    /\ localPlan = <<>>
    /\ \A i \in 1..Len(localTreeRoot) : Paired(mappings, localTreeRoot[i], serverTreeRoot[i])

\* the image of an id under one direction of a mapping where there is one,
\* the id itself where there is none
Image(mapping, type, id) ==
  IF type \in Variants /\ id \in IdSpace /\ mapping[type][id] # Undefined
  THEN mapping[type][id] ELSE id

Translated(before, after, mapping) ==
  /\ after.type = before.type
  /\ after.payload.id = Image(mapping, before.payload.type, before.payload.id)
  /\ after.payload.parentId = Image(mapping, FOLDER, before.payload.parentId)
  /\ after.oldItem.id = Image(mapping, before.oldItem.type, before.oldItem.id)
  /\ after.oldItem.parentId = Image(mapping, FOLDER, before.oldItem.parentId)

PlanTranslated(before, after, mapping) ==
  /\ Len(after) = Len(before)
  /\ \A i \in 1..Len(before) :
       before[i].type \notin {MOVE, REORDER} => Translated(before[i], after[i], mapping)

\* C10: the step that maps serverPlan replaces, in every action that is
\* neither a MOVE nor a REORDER, payload.id, payload.parentId, oldItem.id
\* and oldItem.parentId by their images under the snapshot's LocalToServer
\* where there is one and leaves them as they are where there is none; the
\* step that maps localPlan does the same with ServerToLocal.
PlansTranslated ==
  [][/\ (pc = "serverPass" /\ pc' = "localPass")
          => PlanTranslated(serverPlan, serverPlan', mappingsSnapshot.LocalToServer)
     /\ (pc = "localPass" /\ pc' = "done")
          => PlanTranslated(localPlan, localPlan', mappingsSnapshot.ServerToLocal)]_vars

\* an action the mapping has changed, and one it has left as it was
Changed(plan, diff) ==
  \E i \in 1..Len(plan) : plan[i].type \notin {MOVE, REORDER} /\ ~InSeq(plan[i], diff)

Kept(plan, diff) ==
  \E i \in 1..Len(plan) : plan[i].type \notin {MOVE, REORDER} /\ InSeq(plan[i], diff)

\* both plans have been mapped, each with ids that have an image and ids
\* that have none
BothPlansMapped ==
  /\ Returned
  /\ Changed(serverPlan, localDiff) /\ Kept(serverPlan, localDiff)
  /\ Changed(localPlan, serverDiff) /\ Kept(localPlan, serverDiff)

\* the destination of every MOVE of a plan is, once the plan has been
\* mapped, the image of the destination it had before
MovesTranslated(before, after, mapping) ==
  /\ Len(after) = Len(before)
  /\ \A i \in 1..Len(before) :
       before[i].type = MOVE
         => /\ after[i].type = MOVE
            /\ after[i].payload.parentId = Image(mapping, FOLDER, before[i].payload.parentId)

\* C11: in the serverPlan that reconcile returns, every MOVE, a local MOVE
\* committed from localDiff as well as a compensating MOVE, names its
\* destination parent by that folder's id on the server: the image under the
\* snapshot's LocalToServer of the local destination; every MOVE of
\* localPlan names its destination by its id in the local tree, the image
\* under ServerToLocal of the server destination.
MovesInTargetCoordinates ==
  [][/\ (pc = "serverPass" /\ pc' = "localPass")
          => MovesTranslated(serverPlan, serverPlan', mappingsSnapshot.LocalToServer)
     /\ (pc = "localPass" /\ pc' = "done")
          => MovesTranslated(localPlan, localPlan', mappingsSnapshot.ServerToLocal)]_vars

\* a MOVE of serverPlan that no action of localDiff has brought: the
\* compensation of lines 108-122
IsCompensation(m) == m.type = MOVE /\ ~InSeq(m, localDiff)

\* a compensation as the server sees it: it is made to look like a local
\* action, so its ids are translated like those of a local action
AsLocalAction(m) == [m EXCEPT !.payload = MapItem(mappingsSnapshot.LocalToServer, m.payload)]

\* C12: reconcile does not return plans when a compensating MOVE it would
\* emit creates a cycle once applied to the server tree (it aborts with
\* HierarchyReversalUnresolvable instead): no returned serverPlan holds such
\* a compensation.
CyclicCompensationAborts ==
  Returned =>
    \A i \in 1..Len(serverPlan) :
      IsCompensation(serverPlan[i])
        => Acyclic(ExecuteMove(serverTreeRoot, AsLocalAction(serverPlan[i])))

\* the place of an action in a diff, 0 when it is not there
PlaceIn(diff, action) ==
  LET S == {k \in 1..Len(diff) : diff[k] = action} IN IF S = {} THEN 0 ELSE Min(S)

\* the actions of the diff that are in the plan are there in the order of the diff
CommitOrder(plan, diff) ==
  \A i \in 1..Len(plan), j \in 1..Len(plan) :
    (i < j /\ InSeq(plan[i], diff) /\ InSeq(plan[j], diff))
      => PlaceIn(diff, plan[i]) < PlaceIn(diff, plan[j])

\* C13: while the handlers of a pass run, are suspended in a sub-scan or in
\* addMapping, or have all completed, the actions of localDiff that have
\* been committed to serverPlan are there in the order localDiff has them,
\* and those of serverDiff in localPlan in the order of serverDiff.
CommitsInLogOrder ==
  /\ pc = "serverPass" => CommitOrder(serverPlan, localDiff)
  /\ pc = "localPass" => CommitOrder(localPlan, serverDiff)

\* the handler of an action is suspended and waits for the store, while an
\* action before it and an action after it in localDiff have been committed
CommittedPastSuspended ==
  /\ pc = "serverPass"
  /\ \E t \in tasks, i \in 1..Len(serverPlan), j \in 1..Len(serverPlan) :
       /\ t.inflight > 0
       /\ i < j
       /\ InSeq(serverPlan[i], localDiff)
       /\ PlaceIn(localDiff, serverPlan[i]) < t.h
       /\ t.h < PlaceIn(localDiff, serverPlan[j])

\* C14: no REORDER of localDiff or of serverDiff is in serverPlan or in
\* localPlan, while reconcile builds them and when it returns them.
NoReorderInPlans == ~HasType(serverPlan, REORDER) /\ ~HasType(localPlan, REORDER)

\* reconcile has returned, and both diffs held a REORDER
ReordersDropped ==
  Returned /\ HasType(localDiff, REORDER) /\ HasType(serverDiff, REORDER)

\* C19: when the sync has run, both plans have been applied and the sync
\* has run again over the resulting trees and the updated store, the
\* second run returns two empty plans.
ConvergesAfterTwoSyncs ==
  (run = 2 /\ Returned) => (serverPlan = <<>> /\ localPlan = <<>>)

\* the local MOVEs that the server pass finds server MOVE b to reverse
ReversedBy(b) ==
  {k \in 1..Len(localDiff) :
     /\ localDiff[k].type = MOVE
     /\ ServerPassReversal(localDiff[k], b, mappingsSnapshot, localTreeRoot, serverTreeRoot)}

\* the places in serverPlan of the compensations for the item of server MOVE b
CompensationsFor(b) ==
  {i \in 1..Len(serverPlan) :
     IsCompensation(serverPlan[i]) /\ serverPlan[i].payload.id = b.oldItem.id}

Places(folders) == {RootId} \cup {folders[i].id : i \in 1..Len(folders)}

\* the values of a bookmark's folders property: one folder or more, each once
FolderLists(folders) ==
  UNION {{f \in [1..n -> Places(folders)] : \A i \in 1..n, j \in 1..n : i # j => f[i] # f[j]}
         : n \in 1..MaxBookmarkFolders}

RECURSIVE Listings(_, _)
Listings(n, folders) ==
  IF n = 0 THEN {<<>>}
  ELSE Listings(n - 1, folders)
       \cup {Append(l, [id |-> n, title |-> "s", url |-> "u", folders |-> fs])
             : l \in {k \in Listings(n - 1, folders) : Len(k) = n - 1},
               fs \in FolderLists(folders)}

ServerContents ==
  UNION {{[folders |-> t, bookmarks |-> l] : l \in Listings(MaxServerBookmarks, t)}
         : t \in ShapesUpTo(MaxAdapterFolders, DeepKinds)}

\* the children of a folder as the server reports them: its folders, then
\* the bookmarks that are in it
ChildItems(content, folderId) ==
  LET fs == SelectSeq(content.folders, LAMBDA f : f.parentId = folderId)
      bs == SelectSeq(content.bookmarks,
                      LAMBDA b : \E k \in 1..Len(b.folders) : b.folders[k] = folderId)
  IN [i \in 1..Len(fs) |-> [type |-> FOLDER, id |-> fs[i].id, title |-> fs[i].title, url |-> ""]]
     \o [i \in 1..Len(bs) |-> [type |-> BOOKMARK, id |-> bs[i].id, title |-> bs[i].title, url |-> bs[i].url]]

RECURSIVE flatten(_)
flatten(lists) == IF lists = <<>> THEN <<>> ELSE Head(lists) \o flatten(Tail(lists))

(***************************************************************************)
(* getBookmarksList, lines 245-288.  Each operation below gives the        *)
(* adapter after it, the requests it has sent and what it returns or       *)
(* throws.  The server answers the list in one page.                       *)
(***************************************************************************)
getBookmarksList(a, content, reply) ==
  IF a.list # NoTree
  THEN [adapter |-> a, sent |-> <<>>, result |-> Return(a.list)]
  ELSE IF reply # ""
  THEN [adapter |-> a, sent |-> <<"GET">>, result |-> Throw(reply)]
  ELSE LET data == content.bookmarks
           bookmarks == flatten([i \in 1..Len(data) |->
                          [k \in 1..Len(data[i].folders) |->
                             Node(BOOKMARK, <<data[i].id>>, data[i].title, data[i].url,
                                  data[i].folders[k], Undefined)]])
       IN [adapter |-> [a EXCEPT !.list = bookmarks], sent |-> <<"GET">>,
           result |-> Return(bookmarks)]

(***************************************************************************)
(* _getChildren, lines 418-515, with layers = -1.                          *)
(***************************************************************************)
\* lines 436-456
RECURSIVE recurseChildren(_, _, _, _)
recurseChildren(content, folderId, children, fuel) ==
  IF children = <<>> \/ fuel = 0 THEN <<>>
  ELSE LET item == Head(children)
           node == IF item.type = BOOKMARK
                   THEN Node(BOOKMARK, <<item.id, folderId>>, item.title, item.url, folderId, folderId)
                   ELSE Node(FOLDER, <<item.id>>, item.title, "", folderId, folderId)
           below == IF item.type = FOLDER
                    THEN recurseChildren(content, item.id, ChildItems(content, item.id), fuel - 1)
                    ELSE <<>>
       IN <<node>> \o below \o recurseChildren(content, folderId, Tail(children), fuel)

\* lines 493-495: childBookmarks.find(...), the first entry of the list with
\* this id; 0 if there is none
FirstListed(list, id) ==
  LET S == {i \in 1..Len(list) : list[i].id = <<id>>}
  IN IF S = {} THEN 0 ELSE CHOOSE i \in S : \A j \in S : i <= j

\* lines 471-485: the parentId recurseFolders gives the folder
FolderParent(content, id) ==
  LET i == CHOOSE j \in 1..Len(content.folders) : content.folders[j].id = id
  IN content.folders[i].parentId

\* lines 490-512; a bookmark the list does not have leaves a node of type
\* "missing", for which line 497 throws
RECURSIVE recurseItems(_, _, _, _, _)
recurseItems(content, list, folderId, childrenOrder, fuel) ==
  IF childrenOrder = <<>> \/ fuel = 0 THEN <<>>
  ELSE LET item == Head(childrenOrder)
           bm == FirstListed(list, item.id)
           node == IF item.type = BOOKMARK
                   THEN (IF bm = 0
                         THEN Node("missing", <<item.id>>, "", "", Undefined, folderId)
                         ELSE [list[bm] EXCEPT !.inside = folderId])
                   ELSE Node(FOLDER, <<item.id>>, item.title, "",
                             FolderParent(content, item.id), folderId)
           below == IF item.type = FOLDER
                    THEN recurseItems(content, list, item.id, ChildItems(content, item.id), fuel - 1)
                    ELSE <<>>
       IN <<node>> \o below \o recurseItems(content, list, folderId, Tail(childrenOrder), fuel)

getChildren(a, content, folderId, childrenReply, restReply) ==
  LET asked == a.hasFeatureChildren # No
      feature == IF asked /\ childrenReply = "" THEN Yes ELSE No
      a2 == [a EXCEPT !.hasFeatureChildren = feature]
      first == IF asked THEN <<"GET">> ELSE <<>>
      depth == Len(content.folders) + 1
  IN IF feature = Yes
     THEN [adapter |-> a2, sent |-> first,
           result |-> Return(recurseChildren(content, folderId,
                                              ChildItems(content, folderId), depth))]
     ELSE IF restReply # ""
     THEN [adapter |-> a2, sent |-> first \o <<"GET", "GET">>, result |-> Throw(restReply)]
     ELSE LET items == recurseItems(content, a.list, folderId,
                                    ChildItems(content, folderId), depth)
          IN [adapter |-> a2, sent |-> first \o <<"GET", "GET">>,
              result |-> IF \E i \in 1..Len(items) : items[i].type = "missing"
                         THEN Throw("Could not find bookmark")
                         ELSE Return(items)]

(***************************************************************************)
(* getCompleteBookmarksTree, lines 377-387.                                *)
(***************************************************************************)
getCompleteBookmarksTree(a, content, listReply, childrenReply, restReply) ==
  LET listed == getBookmarksList(a, content, listReply)
      children == getChildren(listed.adapter, content, RootId, childrenReply, restReply)
  IN IF listed.result.threw # "" THEN listed
     ELSE IF children.result.threw # ""
     THEN [children EXCEPT !.sent = listed.sent \o children.sent]
     ELSE [adapter |-> [children.adapter EXCEPT !.tree = children.result.value],
           sent |-> listed.sent \o children.sent,
           result |-> Return(children.result.value)]

(***************************************************************************)
(* createFolder, lines 544-572.                                            *)
(***************************************************************************)
\* itemId is the id of json.item, Undefined when the answer has no item
createFolder(a, folder, reply, itemId) ==
  IF a.tree = NoTree
  THEN [adapter |-> a, sent |-> <<>>, result |-> Throw("TypeError")]
  ELSE IF findFolder(a.tree, RootId, folder.parentId) = Undefined
  THEN [adapter |-> a, sent |-> <<>>, result |-> Throw("Error005")]
  ELSE IF reply # ""
  THEN [adapter |-> a, sent |-> <<"POST">>, result |-> Throw(reply)]
  ELSE IF itemId = Undefined
  THEN [adapter |-> a, sent |-> <<"POST">>, result |-> Throw("Error015")]
  ELSE [adapter |-> [a EXCEPT !.tree = Append(a.tree,
                        Node(FOLDER, <<itemId>>, folder.title, "",
                             folder.parentId, folder.parentId))],
        sent |-> <<"POST">>, result |-> Return(itemId)]

(***************************************************************************)
(* updateFolder, lines 638-670.                                            *)
(***************************************************************************)
\* children.filter(...) on the children of the folder holder, lines 659-661
\* and 700-702: every child with this id leaves the tree, a folder with all
\* that is below it
Filtered(nodes, holder, id) ==
  LET i == NodeIndex(nodes, id)
      gone == i # 0 /\ nodes[i].inside = holder
  IN SelectSeq(nodes, LAMBDA n :
       /\ ~(n.inside = holder /\ n.id = <<id>>)
       /\ ~(gone /\ Under(nodes, n.inside, id, Len(nodes) + 1)))

\* the parentId property of a folder of the tree
ParentIdOf(nodes, id) ==
  IF id = RootId THEN Undefined ELSE nodes[NodeIndex(nodes, id)].parentId

\* updateFolder without the check for a loop (lines 642-644)
updateFolderUnguarded(a, folder, reply) ==
  LET id == folder.id
      oldFolder == findFolder(a.tree, RootId, folder.id)
      oldParentFolder == findFolder(a.tree, RootId, ParentIdOf(a.tree, oldFolder))
      filtered == Filtered(a.tree, oldParentFolder, id)
      newParentFolder == findFolder(filtered, RootId, folder.parentId)
      i == NodeIndex(a.tree, id)
      moved == [a.tree[i] EXCEPT !.title = folder.title,
                                 !.parentId = folder.parentId,
                                 !.inside = folder.parentId]
      pushed == SelectSeq([k \in 1..Len(a.tree) |-> IF k = i THEN moved ELSE a.tree[k]],
                          LAMBDA n : ~(n.type # FOLDER /\ n.inside = oldParentFolder
                                       /\ n.id = <<id>>))
  IN IF a.tree = NoTree \/ oldFolder = Undefined
     THEN [adapter |-> a, sent |-> <<>>, result |-> Throw("TypeError")]
     ELSE IF reply # ""
     THEN [adapter |-> a, sent |-> <<"PUT">>, result |-> Throw(reply)]
     ELSE IF oldParentFolder = Undefined
     THEN [adapter |-> a, sent |-> <<"PUT">>, result |-> Throw("Error008")]
     ELSE IF newParentFolder = Undefined
     THEN [adapter |-> [a EXCEPT !.tree = filtered],
           sent |-> <<"PUT">>, result |-> Throw("Error009")]
     ELSE [adapter |-> [a EXCEPT !.tree = pushed],
           sent |-> <<"PUT">>, result |-> Return(<<>>)]

updateFolder(a, folder, reply) ==
  LET id == folder.id
      oldFolder == findFolder(a.tree, RootId, folder.id)
      oldParentFolder == findFolder(a.tree, RootId, ParentIdOf(a.tree, oldFolder))
      filtered == Filtered(a.tree, oldParentFolder, id)
      newParentFolder == findFolder(filtered, RootId, folder.parentId)
      i == NodeIndex(a.tree, id)
      moved == [a.tree[i] EXCEPT !.title = folder.title,
                                 !.parentId = folder.parentId,
                                 !.inside = folder.parentId]
      pushed == SelectSeq([k \in 1..Len(a.tree) |-> IF k = i THEN moved ELSE a.tree[k]],
                          LAMBDA n : ~(n.type # FOLDER /\ n.inside = oldParentFolder
                                       /\ n.id = <<id>>))
  IN IF a.tree = NoTree \/ oldFolder = Undefined
     THEN [adapter |-> a, sent |-> <<>>, result |-> Throw("TypeError")]
     ELSE IF findFolder(a.tree, oldFolder, folder.parentId) # Undefined
     THEN [adapter |-> a, sent |-> <<>>, result |-> Throw("Detected folder loop creation")]
     ELSE IF reply # ""
     THEN [adapter |-> a, sent |-> <<"PUT">>, result |-> Throw(reply)]
     ELSE IF oldParentFolder = Undefined
     THEN [adapter |-> a, sent |-> <<"PUT">>, result |-> Throw("Error008")]
     ELSE IF newParentFolder = Undefined
     THEN [adapter |-> [a EXCEPT !.tree = filtered],
           sent |-> <<"PUT">>, result |-> Throw("Error009")]
     ELSE [adapter |-> [a EXCEPT !.tree = pushed],
           sent |-> <<"PUT">>, result |-> Return(<<>>)]

(***************************************************************************)
(* removeFolder, lines 688-705.                                            *)
(***************************************************************************)
removeFolder(a, folder, reply) ==
  LET id == folder.id
      oldFolder == findFolder(a.tree, RootId, id)
      parent == findFolder(a.tree, RootId, ParentIdOf(a.tree, oldFolder))
  IN IF a.tree = NoTree
     THEN [adapter |-> a, sent |-> <<>>, result |-> Throw("TypeError")]
     ELSE IF oldFolder = Undefined
     THEN [adapter |-> a, sent |-> <<>>, result |-> Return(<<>>)]
     ELSE IF reply # ""
     THEN [adapter |-> a, sent |-> <<"DELETE">>, result |-> Throw(reply)]
     ELSE IF parent = Undefined
     THEN [adapter |-> a, sent |-> <<"DELETE">>, result |-> Throw("TypeError")]
     ELSE [adapter |-> [a EXCEPT !.tree = Filtered(a.tree, parent, id)],
           sent |-> <<"DELETE">>, result |-> Return(<<>>)]

(***************************************************************************)
(* bulkImportFolder, lines 574-636.                                        *)
(***************************************************************************)
\* lines 610-631, for an answer whose folders are empty
recurseImported(children, id) ==
  [k \in 1..Len(children) |->
     IF children[k].type = BOOKMARK
     THEN Node(BOOKMARK, <<children[k].id, id>>, children[k].title, children[k].url, id, id)
     ELSE Node(FOLDER, <<children[k].id>>, children[k].title, "", id, id)]

\* bulkImportFolder with the count looked at only after the server has
\* answered
bulkImportFolderCountedLate(a, parentId, folder, reply, data) ==
  IF a.hasFeatureBulkImport = No
  THEN [adapter |-> a, sent |-> <<>>,
        result |-> Throw("Current server does not support bulk import")]
  ELSE IF a.tree = NoTree
  THEN [adapter |-> a, sent |-> <<>>, result |-> Throw("TypeError")]
  ELSE IF findFolder(a.tree, RootId, parentId) = Undefined
  THEN [adapter |-> a, sent |-> <<>>, result |-> Throw("Error005")]
  ELSE IF reply # ""
  THEN [adapter |-> [a EXCEPT !.hasFeatureBulkImport = No],
        sent |-> <<"POST">>, result |-> Throw("TypeError")]
  ELSE IF folder.count > BulkImportLimit
  THEN [adapter |-> a, sent |-> <<"POST">>,
        result |-> Throw("Refusing to bulk import more than 300 bookmarks")]
  ELSE LET imported == recurseImported(data, parentId)
       IN [adapter |-> [a EXCEPT !.tree = Emptied(a.tree, parentId) \o imported],
           sent |-> <<"POST">>, result |-> Return(imported)]

\* folder.count() is given as the property count of the argument
bulkImportFolder(a, parentId, folder, reply, data) ==
  IF a.hasFeatureBulkImport = No
  THEN [adapter |-> a, sent |-> <<>>,
        result |-> Throw("Current server does not support bulk import")]
  ELSE IF folder.count > BulkImportLimit
  THEN [adapter |-> a, sent |-> <<>>,
        result |-> Throw("Refusing to bulk import more than 300 bookmarks")]
  ELSE IF a.tree = NoTree
  THEN [adapter |-> a, sent |-> <<>>, result |-> Throw("TypeError")]
  ELSE IF findFolder(a.tree, RootId, parentId) = Undefined
  THEN [adapter |-> a, sent |-> <<>>, result |-> Throw("Error005")]
  ELSE IF reply # ""
  THEN [adapter |-> [a EXCEPT !.hasFeatureBulkImport = No],
        sent |-> <<"POST">>, result |-> Throw("TypeError")]
  ELSE LET imported == recurseImported(data, parentId)
       IN [adapter |-> [a EXCEPT !.tree = Emptied(a.tree, parentId) \o imported],
           sent |-> <<"POST">>, result |-> Return(imported)]

(***************************************************************************)
(* The calls made on the adapter.                                          *)
(***************************************************************************)
\* the ids a caller may name and the ids the server may give a new folder
MaxAdapterId == MaxAdapterFolders
AdapterIds == {RootId} \cup 1..MaxAdapterId
AdapterTitles == {"g"}
FreshIds(nodes) == IF nodes = NoTree THEN 1..MaxAdapterId ELSE (1..MaxAdapterId) \ FolderIds(nodes)

\* what the server may answer to an import: nothing, a bookmark or a folder
ImportedData(nodes) ==
  {<<>>, <<[type |-> BOOKMARK, id |-> 1, title |-> "s", url |-> "u"]>>}
  \cup {<<[type |-> FOLDER, id |-> k, title |-> "f", url |-> ""]>> : k \in FreshIds(nodes)}

Counts == {BulkImportLimit, BulkImportLimit + 1}

\* a call is made and settles
Done(op, args, done) ==
  /\ calls < MaxCalls
  /\ calls' = calls + 1
  /\ adapter' = done.adapter
  /\ sent' = done.sent
  /\ outcome' = Call(op, args, done.result)
  /\ UNCHANGED syncVars
  /\ UNCHANGED <<lockFile, instances>>
  /\ UNCHANGED callVars

GetCompleteBookmarksTree ==
  \E content \in ServerContents, listReply \in Replies,
     childrenReply \in Replies, restReply \in Replies :
    Done("getCompleteBookmarksTree", <<>>,
         getCompleteBookmarksTree(adapter, content, listReply, childrenReply, restReply))

SendRequest ==
  \E fetch \in Fetches, returnRawResponse \in BOOLEAN :
    Done("sendRequest", [fetch |-> fetch, returnRawResponse |-> returnRawResponse],
         [adapter |-> adapter, sent |-> <<"GET">>,
          result |-> sendRequest(fetch, returnRawResponse)])

CreateFolder ==
  \E parentId \in AdapterIds, title \in AdapterTitles, reply \in Replies,
     itemId \in FreshIds(adapter.tree) \cup {Undefined} :
    LET folder == [parentId |-> parentId, title |-> title]
    IN Done("createFolder", folder, createFolder(adapter, folder, reply, itemId))

UpdateFolder ==
  \E id \in AdapterIds, parentId \in AdapterIds, title \in AdapterTitles, reply \in Replies :
    LET folder == [id |-> id, parentId |-> parentId, title |-> title]
    IN Done("updateFolder", folder, updateFolder(adapter, folder, reply))

RemoveFolder ==
  \E id \in AdapterIds, reply \in Replies :
    LET folder == [id |-> id]
    IN Done("removeFolder", folder, removeFolder(adapter, folder, reply))

BulkImportFolder ==
  \E parentId \in AdapterIds, count \in Counts, reply \in Replies,
     data \in ImportedData(adapter.tree) :
    LET folder == [title |-> "f", parentId |-> RootId, count |-> count]
    IN Done("bulkImportFolder", [parentId |-> parentId, folder |-> folder],
            bulkImportFolder(adapter, parentId, folder, reply, data))

\* a constructed adapter; no sync is running
InitAdapter == Start({<<>>}, {<<>>}, LAMBDA lt, st : {RootStore})

NextAdapter ==
  \/ GetCompleteBookmarksTree
  \/ SendRequest
  \/ CreateFolder
  \/ UpdateFolder
  \/ RemoveFolder
  \/ BulkImportFolder

SpecAdapter == InitAdapter /\ [][NextAdapter]_vars

(***************************************************************************)
(* Properties of the adapter.                                              *)
(***************************************************************************)
\* C15: bulkImportFolder fails whenever folder.count() is more than 300; it
\* has then sent no request and has left the cached tree and
\* hasFeatureBulkImport as they were.
BulkImportRefusesLargeFolders ==
  [][(outcome'.op = "bulkImportFolder" /\ outcome'.args.folder.count > 300)
       => /\ outcome'.threw # ""
          /\ sent' = <<>>
          /\ adapter'.tree = adapter.tree
          /\ adapter'.hasFeatureBulkImport = adapter.hasFeatureBulkImport]_vars

\* a folder of 301 items was refused although the server's support was not
\* ruled out and the folder to import into is in the cached tree
BulkImportRefused ==
  /\ outcome.op = "bulkImportFolder"
  /\ outcome.args.folder.count = 301
  /\ adapter.hasFeatureBulkImport = Unknown
  /\ adapter.tree # NoTree
  /\ outcome.args.parentId \in FolderIds(adapter.tree)
  /\ outcome.threw = "Refusing to bulk import more than 300 bookmarks"
  /\ sent = <<>>

\* C16: sendRequest without returnRawResponse returns only when the body
\* parses as JSON with status 'success'; otherwise it throws: Error016 on a
\* timeout, Error017 on another network failure, Error018 on HTTP 401 or 403,
\* Error019 on HTTP 503, Error020 on an unparsable body, and an API error on
\* a status other than 'success'.
SendRequestReturnsOnlySuccess ==
  (outcome.op = "sendRequest" /\ ~outcome.args.returnRawResponse)
    => LET fetch == outcome.args.fetch
           answered == fetch.kind = "response"
           refused == fetch.status \in {401, 403, 503}
       IN /\ outcome.threw = "" => (answered /\ fetch.body = "success")
          /\ fetch.kind = "timeout" => outcome.threw = "Error016"
          /\ fetch.kind = "failure" => outcome.threw = "Error017"
          /\ (answered /\ fetch.status \in {401, 403}) => outcome.threw = "Error018"
          /\ (answered /\ fetch.status = 503) => outcome.threw = "Error019"
          /\ (answered /\ ~refused /\ fetch.body = "unparsable") => outcome.threw = "Error020"
          /\ (answered /\ ~refused /\ fetch.body = "failure")
               => outcome.threw = "Nextcloud API error"

\* a response that is neither refused nor unparsable but reports a failure
\* made sendRequest throw the API error
SendRequestThrewApiError ==
  /\ outcome.op = "sendRequest"
  /\ ~outcome.args.returnRawResponse
  /\ outcome.args.fetch.kind = "response"
  /\ outcome.args.fetch.status = 200
  /\ outcome.args.fetch.body = "failure"
  /\ outcome.threw = "Nextcloud API error"

\* C17: in every tree getCompleteBookmarksTree returns, over the children
\* endpoint or over the cached list, the parentId of every node is the id of
\* the folder that contains it, also for a bookmark that is in more than one
\* folder.
ParentPointersAgree ==
  (outcome.op = "getCompleteBookmarksTree" /\ outcome.threw = "")
    => \A i \in 1..Len(outcome.value) :
         outcome.value[i].parentId = outcome.value[i].inside

\* the folders that are the folder id or lie below it
RECURSIVE Below(_, _, _)
Below(nodes, ids, fuel) ==
  LET more == ids \cup {nodes[i].id[1] :
                          i \in {j \in 1..Len(nodes) : nodes[j].type = FOLDER
                                                        /\ nodes[j].inside \in ids}}
  IN IF fuel = 0 \/ more = ids THEN ids ELSE Below(nodes, more, fuel - 1)

\* the call asks to move a folder of the tree into itself or below itself
LoopRequested(nodes, folder) ==
  /\ nodes # NoTree
  /\ folder.id \in FolderIds(nodes)
  /\ folder.parentId \in Below(nodes, {folder.id}, Len(nodes))

\* C18: the cached tree stays acyclic under createFolder, updateFolder and
\* removeFolder: updateFolder throws 'Detected folder loop creation' and
\* sends no request when the new parent is the moved folder or below it.
FolderCallsKeepTreeAcyclic ==
  [][/\ (adapter.tree # NoTree /\ AcyclicNodes(adapter.tree)
          /\ outcome'.op \in {"createFolder", "updateFolder", "removeFolder"})
         => AcyclicNodes(adapter'.tree)
     /\ (outcome'.op = "updateFolder" /\ LoopRequested(adapter.tree, outcome'.args))
         => /\ outcome'.threw = "Detected folder loop creation"
            /\ sent' = <<>>
            /\ adapter'.tree = adapter.tree]_vars

\* a move of a folder into a folder below it was refused
LoopRefused ==
  /\ outcome.op = "updateFolder"
  /\ LoopRequested(adapter.tree, outcome.args)
  /\ outcome.args.parentId # outcome.args.id
  /\ outcome.threw = "Detected folder loop creation"
  /\ sent = <<>>
  /\ AcyclicNodes(adapter.tree)

(***************************************************************************)
(* Properties of the two passes taken together.                            *)
(***************************************************************************)
\* the server MOVE b is in localPlan
CommittedLocally(b) ==
  \E k \in 1..Len(localPlan) :
    localPlan[k].type = MOVE /\ localPlan[k].payload.id = b.payload.id

\* C21: the two passes agree on hierarchy reversals: the server pass finds
\* server MOVE B to reverse local MOVE A exactly when the local pass finds it
\* so, and no server MOVE is both reverted by a compensating MOVE in
\* serverPlan and committed to localPlan.
PassesAgreeOnReversals ==
  Returned =>
    \A j \in 1..Len(serverDiff) :
      serverDiff[j].type = MOVE =>
        /\ \A i \in 1..Len(localDiff) :
             localDiff[i].type = MOVE =>
               (ServerPassReversal(localDiff[i], serverDiff[j], mappingsSnapshot,
                                   localTreeRoot, serverTreeRoot)
                <=> LocalPassReversal(serverDiff[j], localDiff[i], mappingsSnapshot,
                                      localTreeRoot, serverTreeRoot))
        /\ ~(CompensationsFor(serverDiff[j]) # {} /\ CommittedLocally(serverDiff[j]))

\* a server MOVE has been reverted in serverPlan; no local MOVE is of its
\* item, so it is the test for a reversal that has kept it out of localPlan
RevertedAndDropped ==
  /\ Returned
  /\ \E j \in 1..Len(serverDiff) :
       /\ serverDiff[j].type = MOVE
       /\ CompensationsFor(serverDiff[j]) # {}
       /\ ConcurrentMove(serverDiff[j], getActions(localDiff, MOVE), mappingsSnapshot) = 0
       /\ ~CommittedLocally(serverDiff[j])

\* localDiff moves item X and serverDiff moves the item the snapshot maps X to
ConcurrentMoves(mL, mS) ==
  /\ mL.type = MOVE /\ mS.type = MOVE
  /\ mS.payload.type = mL.payload.type
  /\ mS.payload.id = Lookup(mappingsSnapshot.LocalToServer, mL.payload.type, mL.payload.id)

\* C22: when localDiff has a MOVE of local item X and serverDiff has a MOVE
\* of the server item that LocalToServer maps X to, localPlan has no MOVE of
\* that item and serverPlan has the local MOVE, whatever the destinations.
LocalMoveWins ==
  Returned =>
    \A i \in 1..Len(localDiff), j \in 1..Len(serverDiff) :
      ConcurrentMoves(localDiff[i], serverDiff[j]) =>
        /\ InSeq(localDiff[i], serverPlan)
        /\ \A k \in 1..Len(localPlan) :
             ~(/\ localPlan[k].type = MOVE
               /\ localPlan[k].payload.type = serverDiff[j].payload.type
               /\ localPlan[k].payload.id = serverDiff[j].payload.id)

\* an item has been moved on both sides, to places that are not paired, and
\* the server's MOVE reverses no local MOVE
MovedOnBothSides ==
  /\ Returned
  /\ \E i \in 1..Len(localDiff), j \in 1..Len(serverDiff) :
       /\ ConcurrentMoves(localDiff[i], serverDiff[j])
       /\ serverDiff[j].payload.parentId
            # Lookup(mappingsSnapshot.LocalToServer, FOLDER, localDiff[i].payload.parentId)
       /\ \A k \in 1..Len(localDiff) :
            localDiff[k].type = MOVE =>
              ~LocalPassReversal(serverDiff[j], localDiff[k], mappingsSnapshot,
                                 localTreeRoot, serverTreeRoot)
       /\ InSeq(localDiff[i], serverPlan)
       /\ ~CommittedLocally(serverDiff[j])

\* how often the action is in the plan
Times(action, plan) == Cardinality({k \in 1..Len(plan) : plan[k] = action})

\* serverDiff creates something that can be merged with what the local
\* CREATE creates, under a folder that the snapshot pairs, in one direction
\* or the other, with the folder of the local CREATE
HasConcurrentCreate(cL) ==
  \E j \in 1..Len(serverDiff) :
    /\ serverDiff[j].type = CREATE
    /\ canMergeWith(cL.payload, serverDiff[j].payload)
    /\ \/ Lookup(mappingsSnapshot.ServerToLocal, FOLDER, serverDiff[j].payload.parentId)
            = cL.payload.parentId
       \/ Lookup(mappingsSnapshot.LocalToServer, FOLDER, cL.payload.parentId)
            = serverDiff[j].payload.parentId

\* a local change that the server pass has to pass on
ToBePlanned(action) ==
  \/ action.type \in {UPDATE, MOVE}
  \/ action.type = CREATE /\ ~HasConcurrentCreate(action)

\* C23: the server pass neither loses nor duplicates a local change: every
\* UPDATE and MOVE of localDiff, and every CREATE of localDiff without a
\* mergeable concurrent server CREATE under the paired parent, is in
\* serverPlan exactly once when the pass has ended, and is there, as it is or
\* translated, when reconcile returns.
LocalChangesPlannedOnce ==
  /\ (pc = "serverPass" /\ AllHandlersDone(Len(localDiff)))
       => \A i \in 1..Len(localDiff) :
            ToBePlanned(localDiff[i]) => Times(localDiff[i], serverPlan) = 1
  /\ Returned
       => \A i \in 1..Len(localDiff) :
            ToBePlanned(localDiff[i])
              => PlannedFrom(localDiff[i], serverPlan, mappingsSnapshot.LocalToServer)

\* the server pass has ended over a localDiff with an UPDATE, a MOVE and a
\* CREATE that is passed on
ServerPassEnded ==
  /\ pc = "serverPass" /\ AllHandlersDone(Len(localDiff))
  /\ HasType(localDiff, UPDATE) /\ HasType(localDiff, MOVE)
  /\ \E i \in 1..Len(localDiff) : localDiff[i].type = CREATE /\ ToBePlanned(localDiff[i])

(***************************************************************************)
(* onSyncStart, onSyncComplete, onSyncFail and the sync lock, lines        *)
(* 111-243.                                                                *)
(***************************************************************************)
\* what the server can answer to a request for the lock URL; it answers a
\* GET with 200 only if it has the file and with 404 only if it has not
LockStatuses == {200, 204, 401, 404, 503}
LockFetches(file) ==
  {[kind |-> "failure", status |-> 0]}
  \cup {[kind |-> "response", status |-> st] :
          st \in LockStatuses \ (IF file THEN {404} ELSE {200})}

\* res.ok
Ok(status) == status >= 200 /\ status <= 299

\* downloadFile, lines 126-150
downloadFile(fetch) ==
  IF fetch.kind = "failure" THEN Throw("Error017")
  ELSE IF fetch.status = 401 THEN Throw("Error018")
  ELSE IF ~Ok(fetch.status) /\ fetch.status # 404 THEN Throw("Error019")
  ELSE Return(fetch.status)

\* checkLock, lines 182-188
checkLock(fetch) == downloadFile(fetch)

\* uploadFile, lines 152-180
uploadFile(fetch) ==
  IF fetch.kind = "failure" THEN Throw("Error017")
  ELSE IF fetch.status = 401 \/ fetch.status = 403 THEN Throw("Error018")
  ELSE IF ~Ok(fetch.status) THEN Throw("Error019")
  ELSE Return(<<>>)

\* what the server can answer to the PUT of the lock file
UploadFetches ==
  {[kind |-> "failure", status |-> 0]}
  \cup {[kind |-> "response", status |-> st] : st \in {201, 204, 401, 403, 503}}

\* obtainLock, lines 194-201: one turn of the loop; after a 200 the instance
\* waits before the next turn, after a 404 it leaves the loop
CheckLock(n) ==
  LET me == instances[n]
  IN /\ me.pc = "obtainLock"
     /\ me.rStatus # 404
     /\ LoopCondition(me.i)
     /\ \E fetch \in LockFetches(lockFile) :
          LET checked == checkLock(fetch)
              rStatus == checked.value
          IN instances' = [instances EXCEPT ![n] =
               IF checked.threw # ""
               THEN [me EXCEPT !.pc = "failed", !.threw = checked.threw,
                               !.checks = me.checks + 1]
               ELSE [me EXCEPT !.rStatus = rStatus, !.checks = me.checks + 1,
                               !.i = IF rStatus = 404 THEN me.i ELSE me.i + 1]]
     /\ UNCHANGED lockFile
     /\ UNCHANGED <<syncVars, adapter, sent, outcome, calls, callVars>>

\* obtainLock, lines 203-222: after the loop
Decide(n) ==
  LET me == instances[n]
  IN /\ me.pc = "obtainLock"
     /\ me.rStatus = 404 \/ ~LoopCondition(me.i)
     /\ IF me.rStatus = 200
        THEN /\ instances' = [instances EXCEPT ![n] =
                                [me EXCEPT !.pc = "failed", !.threw = "Error023"]]
             /\ UNCHANGED lockFile
        ELSE IF me.rStatus = 404
        THEN \E fetch \in UploadFetches :
               LET uploaded == uploadFile(fetch)
               IN /\ instances' = [instances EXCEPT ![n] =
                       IF uploaded.threw # ""
                       THEN [me EXCEPT !.pc = "failed", !.threw = uploaded.threw,
                                       !.uploaded = TRUE]
                       ELSE [me EXCEPT !.pc = "syncing", !.uploaded = TRUE]]
                  /\ lockFile' = IF uploaded.threw = "" THEN TRUE ELSE lockFile
        ELSE /\ instances' = [instances EXCEPT ![n] =
                                [me EXCEPT !.pc = "failed", !.threw = "Error024"]]
             /\ UNCHANGED lockFile
     /\ UNCHANGED <<syncVars, adapter, sent, outcome, calls, callVars>>

\* what can come of the DELETE of the lock file: fetch fails, or the server
\* answers, having removed the file (204) or not
DeleteFetches ==
  {[kind |-> "failure", status |-> 0]}
  \cup {[kind |-> "response", status |-> st] : st \in {204, 401, 503}}

freeLockUncaught(fetch) ==
  IF fetch.kind = "failure" THEN Throw("Error017") ELSE Return(<<>>)

\* freeLock, lines 225-243: what fetch throws is caught and logged
freeLock(fetch) ==
  Return(<<>>)

\* onSyncComplete (lines 121-124) or onSyncFail (lines 116-119) of an
\* instance whose onSyncStart has returned
Release(n, via) ==
  LET me == instances[n]
  IN /\ me.pc = "syncing"
     /\ \E fetch \in DeleteFetches :
          LET freed == freeLock(fetch)
          IN /\ instances' = [instances EXCEPT ![n] =
                  [me EXCEPT !.pc = IF freed.threw = "" THEN "done" ELSE "failed",
                             !.threw = freed.threw,
                             !.deleted = TRUE, !.via = via,
                             !.lost = (fetch.kind = "failure")]]
             /\ lockFile' = IF fetch.kind = "response" /\ Ok(fetch.status)
                             THEN FALSE ELSE lockFile
     /\ UNCHANGED <<syncVars, adapter, sent, outcome, calls, callVars>>

\* onSyncComplete, lines 121-124
OnSyncComplete(n) == Release(n, "onSyncComplete")

\* onSyncFail, lines 116-119
OnSyncFail(n) == Release(n, "onSyncFail")

\* both instances have called onSyncStart (lines 111-114)
InitLock == Start({<<>>}, {<<>>}, LAMBDA lt, st : {RootStore})

NextLock ==
  \E n \in Instances :
    \/ CheckLock(n)
    \/ Decide(n)
    \/ OnSyncComplete(n)
    \/ OnSyncFail(n)

SpecLock == InitLock /\ [][NextLock]_vars

\* the fair runs of the instances: an instance whose obtainLock can take its
\* next step takes it
SpecLockFair ==
  SpecLock /\ \A n \in Instances : WF_vars(CheckLock(n)) /\ WF_vars(Decide(n))

(***************************************************************************)
(* Properties of the sync lock.                                            *)
(***************************************************************************)
\* onSyncStart of the instance has returned and it has not called freeLock
HoldsLock(n) == instances[n].pc = "syncing"

\* C24: two instances with the same server url and server root never both
\* complete obtainLock while neither has called freeLock
LockIsExclusive ==
  \A n, m \in Instances : HoldsLock(n) /\ HoldsLock(m) => n = m

\* a checkLock call of the instance threw instead of returning
CheckThrew(n) ==
  /\ ~instances[n].uploaded
  /\ instances[n].threw \in {"Error017", "Error018", "Error019"}

\* obtainLock of the instance has ended
Obtained(n) == instances[n].pc # "obtainLock"

\* what obtainLock does after the last status it saw
DecidedByStatus(n) ==
  LET me == instances[n]
  IN /\ me.checks <= 27
     /\ me.uploaded => me.rStatus = 404
     /\ me.threw = "Error023" => me.rStatus = 200 /\ ~me.uploaded
     /\ me.threw = "Error024" => me.rStatus \notin {200, 404} /\ ~me.uploaded
     /\ Obtained(n) /\ ~CheckThrew(n) =>
          /\ me.checks >= 1
          /\ me.rStatus = 404 => me.uploaded
          /\ me.rStatus = 200 => me.threw = "Error023"
          /\ me.rStatus \notin {200, 404} => me.threw = "Error024"

\* C25: obtainLock ends, after 27 lock checks at most, and what it does then
\* is decided by the last status: 404 uploads the lock file, 200 throws
\* Error023 and uploads nothing, any other status throws Error024 and uploads
\* nothing
ObtainLockEnds ==
  \A n \in Instances : [](DecidedByStatus(n)) /\ <>(Obtained(n))

\* one instance gave up after 27 checks that all saw the lock of the other
GaveUpWaiting ==
  \E n, m \in Instances :
    /\ instances[n].checks = 27
    /\ instances[n].threw = "Error023"
    /\ instances[m].uploaded

\* C26: onSyncComplete or onSyncFail of an instance whose onSyncStart has
\* returned sends the DELETE and returns without throwing, whether or not the
\* DELETE fails
ReleaseNeverThrows ==
  [][\A n \in Instances :
       HoldsLock(n) /\ instances'[n] # instances[n] =>
         /\ instances'[n].deleted
         /\ instances'[n].pc = "done"
         /\ instances'[n].threw = ""]_vars

\* both calls have run, one of them with a DELETE that failed
ReleasedThoughDeleteFailed ==
  \E n, m \in Instances :
    /\ instances[n].pc = "done" /\ instances[n].via = "onSyncComplete"
    /\ instances[n].lost
    /\ instances[m].pc = "done" /\ instances[m].via = "onSyncFail"

(***************************************************************************)
(* The bookmark methods of NextcloudFoldersAdapter, lines 245-288 and      *)
(* 707-848, as calls in progress at the same time.  A call runs from one   *)
(* await to the next in one step; it waits for a key of bookmarkLock or    *)
(* for the answer to a request.                                            *)
(***************************************************************************)
\* AsyncLock.acquire: the call joins those that want the key; the first of
\* them holds it
acquire(lock, key, j) == [lock EXCEPT ![key] = Append(@, j)]

\* the function given to acquire has settled
release(lock, key) == [lock EXCEPT ![key] = Tail(@)]

\* the call is the one whose function AsyncLock runs for the key
Holds(key, j) ==
  bookmarkLock[key] # <<>> /\ Head(bookmarkLock[key]) = j

releaseNone(lock, j) ==
  lock

\* the call throws: every acquire it is in rejects and gives its key up
releaseAll(lock, j) ==
  [k \in Keys |-> IF lock[k] # <<>> /\ Head(lock[k]) = j THEN Tail(lock[k]) ELSE lock[k]]

\* a request to the bookmarks API
Request(what, id, url, folders) ==
  [what |-> what, id |-> id, url |-> url, folders |-> folders]

\* position of the bookmark with this id on the server, 0 if it has none
Stored(sv, id) ==
  LET S == {i \in 1..Len(sv.bookmarks) : sv.bookmarks[i].id = id}
  IN IF S = {} THEN 0 ELSE CHOOSE i \in S : TRUE

\* the sequence without its element at position i
Without(seq, i) == [k \in 1..(Len(seq) - 1) |-> IF k < i THEN seq[k] ELSE seq[k + 1]]

\* what the bookmarks app does with a request that reaches it: the bookmarks
\* it holds afterwards, and the error or the data of its answer
serve(sv, rq) ==
  LET at == Stored(sv, rq.id)
      missing == [server |-> sv, threw |-> "Nextcloud API error", body |-> <<>>]
  IN CASE rq.what = "list" -> [server |-> sv, threw |-> "", body |-> sv.bookmarks]
       [] rq.what = "exists" ->
            [server |-> sv, threw |-> "",
             body |-> SelectSeq(sv.bookmarks, LAMBDA b : b.url = rq.url)]
       [] rq.what = "item" ->
            IF at = 0 THEN missing
            ELSE [server |-> sv, threw |-> "", body |-> <<sv.bookmarks[at]>>]
       [] rq.what = "post" ->
            LET item == [id |-> sv.nextId, title |-> "t", url |-> rq.url,
                         folders |-> rq.folders]
            IN [server |-> [bookmarks |-> Append(sv.bookmarks, item),
                            nextId |-> sv.nextId + 1],
                threw |-> "", body |-> <<item>>]
       [] rq.what = "put" ->
            IF at = 0 THEN missing
            ELSE LET item == [sv.bookmarks[at] EXCEPT !.url = rq.url, !.folders = rq.folders]
                 IN [server |-> [sv EXCEPT !.bookmarks[at] = item],
                     threw |-> "", body |-> <<item>>]
       [] rq.what = "delete" ->
            IF at = 0 \/ \A k \in 1..Len(sv.bookmarks[at].folders) :
                           sv.bookmarks[at].folders[k] # rq.folders[1]
            THEN missing
            ELSE LET rest == SelectSeq(sv.bookmarks[at].folders,
                                       LAMBDA f : f # rq.folders[1])
                 IN [server |->
                       [sv EXCEPT !.bookmarks =
                          IF rest = <<>> THEN Without(sv.bookmarks, at)
                          ELSE [sv.bookmarks EXCEPT ![at].folders = rest]],
                     threw |-> "", body |-> <<>>]

\* Array.prototype.findIndex over the list, for the predicate of lines
\* 843-845: the first index, counted from 0, of an entry with the id; -1 if
\* there is none
findIndex(list, upstreamId) ==
  LET S == {i \in 1..Len(list) : list[i].id = <<upstreamId>>}
  IN IF S = {} THEN -1 ELSE (CHOOSE i \in S : \A k \in S : i <= k) - 1

\* Array.prototype.splice(start, 1): a negative start counts from the end
splice(list, start) ==
  LET from == IF start < 0
              THEN (IF Len(list) + start < 0 THEN 0 ELSE Len(list) + start)
              ELSE start
  IN IF from >= Len(list) THEN list ELSE Without(list, from + 1)

\* lines 787-789: the bookmark as it is added to the list
upstreamMark(bm) == Node(BOOKMARK, <<bm.id>>, "t", bm.url, bm.parentId, Undefined)

pushedNowhere(list, bm) ==
  list

\* line 789
pushed(list, bm) ==
  IF list # NoTree THEN Append(list, upstreamMark(bm)) ELSE list

\* the call has ended
Ended(job) == job.at \in {"done", "failed"}

\* what a step leaves: the call, the lock and the adapter's list
Step(j, job, lock, list) ==
  /\ jobs' = [jobs EXCEPT ![j] = job]
  /\ bookmarkLock' = lock
  /\ adapter' = [adapter EXCEPT !.list = list]
  /\ UNCHANGED <<server, hasFeatureExistenceCheck>>
  /\ UNCHANGED <<syncVars, sent, outcome, calls, lockFile, instances>>

\* the call sends a request and awaits the answer
Asks(job, at, rq) == [job EXCEPT !.at = at, !.request = <<rq>>, !.reply = <<>>]

\* the answer to the request of the call has come
Answered(j, at) == jobs[j].at = at /\ jobs[j].reply # <<>>

\* the call throws
Fails(j, error) ==
  Step(j, [jobs[j] EXCEPT !.at = "failed", !.threw = error, !.request = <<>>, !.reply = <<>>],
       releaseAll(bookmarkLock, j), adapter.list)

\* lines 765-780 of createBookmark, once getExistingBookmark has returned
AfterExisting(job, existing, lock, j) ==
  IF existing # 0
  THEN [job |-> [job EXCEPT !.existing = existing, !.bm.id = existing,
                            !.bm.oldParentId = job.bm.parentId,
                            !.at = "updateBookmark", !.request = <<>>, !.reply = <<>>],
        lock |-> acquire(lock, ToString(existing), j)]
  ELSE [job |-> Asks(job, "post", Request("post", 0, job.bm.url, <<job.bm.parentId>>)),
        lock |-> lock]

\* a call is made: createBookmark (line 763), updateBookmark (lines 798-802),
\* removeBookmark (lines 831-835) or getBookmarksList (line 246) asks for
\* its key
Calls(j, ops, parents) ==
  /\ jobs[j].op = ""
  /\ \A k \in Jobs : k < j => jobs[k].op # ""
  /\ \E op \in ops,
        id \in BookmarkIds, oldParentId \in parents, url \in Urls, parentId \in parents :
       /\ op = "createBookmark" => id = 1 /\ oldParentId = RootId
       /\ op = "removeBookmark" => url = "u" /\ parentId = RootId
       /\ op = "getBookmarksList" =>
            id = 1 /\ oldParentId = RootId /\ url = "u" /\ parentId = RootId
       /\ LET bm == [id |-> IF op \in {"updateBookmark", "removeBookmark"} THEN id ELSE 0,
                     oldParentId |-> oldParentId, url |-> url, parentId |-> parentId]
              key == CASE op = "createBookmark" -> url
                       [] op = "getBookmarksList" -> "list"
                       [] OTHER -> ToString(id)
          IN Step(j, [NotCalled EXCEPT !.op = op, !.bm = bm, !.at = op,
                                       !.waited = (bookmarkLock[key] # <<>>)],
                  acquire(bookmarkLock, key, j), adapter.list)

\* any of the four calls is made
Begin(j) ==
  Calls(j, {"createBookmark", "updateBookmark", "removeBookmark", "getBookmarksList"},
        Parents)

\* any of the four calls is made, for a bookmark of the root folder
BeginAtRoot(j) ==
  Calls(j, {"createBookmark", "updateBookmark", "removeBookmark", "getBookmarksList"},
        {RootId})

\* createBookmark or getBookmarksList is called
BeginCreate(j) ==
  Calls(j, {"createBookmark", "getBookmarksList"}, Parents)

\* the request of a call reaches the server and is answered, or fails
Serve(j) ==
  /\ jobs[j].request # <<>>
  /\ jobs[j].reply = <<>>
  /\ \E reached \in BOOLEAN :
       LET served == serve(server, jobs[j].request[1])
       IN IF reached
          THEN /\ server' = served.server
               /\ jobs' = [jobs EXCEPT ![j].reply =
                             <<[threw |-> served.threw, body |-> served.body]>>]
          ELSE /\ server' = server
               /\ jobs' = [jobs EXCEPT ![j].reply =
                             <<[threw |-> sendRequest([kind |-> "failure"], FALSE).threw,
                                body |-> <<>>]>>]
  /\ UNCHANGED <<hasFeatureExistenceCheck, bookmarkLock, adapter>>
  /\ UNCHANGED <<syncVars, sent, outcome, calls, lockFile, instances>>

\* createBookmark, lines 763-764, and getExistingBookmark, lines 738-751
CreateBookmarkCall(j) ==
  LET job == jobs[j]
  IN /\ job.at = "createBookmark"
     /\ Holds(job.bm.url, j)
     /\ IF hasFeatureExistenceCheck
        THEN Step(j, Asks(job, "getExistingBookmark", Request("exists", 0, job.bm.url, <<>>)),
                  bookmarkLock, adapter.list)
        ELSE Step(j, [job EXCEPT !.at = "getBookmarksList", !.caller = "createBookmark"],
                  acquire(bookmarkLock, "list", j), adapter.list)

\* getExistingBookmark, lines 745-749, and createBookmark, lines 765-780
GetExistingBookmark(j) ==
  LET job == jobs[j]
  IN /\ Answered(j, "getExistingBookmark")
     /\ LET reply == job.reply[1]
        IN IF reply.threw # "" THEN Fails(j, reply.threw)
           ELSE LET existing == IF Len(reply.body) # 0 THEN reply.body[1].id ELSE 0
                    after == AfterExisting(job, existing, bookmarkLock, j)
                IN Step(j, after.job, after.lock, adapter.list)

\* where a call goes on when its getBookmarksList has returned the list:
\* getExistingBookmark (lines 752-754) and createBookmark (lines 765-780),
\* removeBookmark (lines 843-846), or the end of the call
AfterList(j, job, list, lock) ==
  CASE job.caller = "createBookmark" ->
         LET S == {i \in 1..Len(list) : list[i].url = job.bm.url}
             existing == IF S = {} THEN 0
                         ELSE list[CHOOSE i \in S : \A k \in S : i <= k].id[1]
             after == AfterExisting(job, existing, lock, j)
         IN [job |-> after.job, lock |-> after.lock, list |-> list]
    [] job.caller = "removeBookmark" ->
         LET listIndex == findIndex(list, job.bm.id)
             left == splice(list, listIndex)
         IN [job |-> [job EXCEPT !.at = "done", !.got = list, !.left = left,
                                 !.request = <<>>, !.reply = <<>>],
             lock |-> release(lock, ToString(job.bm.id)), list |-> left]
    [] OTHER ->
         [job |-> [job EXCEPT !.at = "done", !.got = list, !.request = <<>>, !.reply = <<>>],
          lock |-> lock, list |-> list]

\* getBookmarksList, lines 246-259: the function run under the key 'list'
GetBookmarksList(j) ==
  LET job == jobs[j]
  IN /\ job.at = "getBookmarksList"
     /\ Holds("list", j)
     /\ IF adapter.list # NoTree
        THEN LET after == AfterList(j, job, adapter.list, release(bookmarkLock, "list"))
             IN Step(j, after.job, after.lock, after.list)
        ELSE Step(j, Asks(job, "fetchList", Request("list", 0, "", <<>>)),
                  bookmarkLock, adapter.list)

\* getBookmarksList, lines 260-286
FetchedList(j) ==
  LET job == jobs[j]
  IN /\ Answered(j, "fetchList")
     /\ LET reply == job.reply[1]
            fetched == getBookmarksList(adapter, [bookmarks |-> reply.body], reply.threw)
        IN IF fetched.result.threw # "" THEN Fails(j, fetched.result.threw)
           ELSE LET after == AfterList(j, job, fetched.adapter.list,
                                       release(bookmarkLock, "list"))
                IN Step(j, after.job, after.lock, after.list)

\* createBookmark, lines 781-791
Posted(j) ==
  LET job == jobs[j]
  IN /\ Answered(j, "post")
     /\ LET reply == job.reply[1]
        IN IF reply.threw # "" THEN Fails(j, reply.threw)
           ELSE LET bm == [job.bm EXCEPT !.id = reply.body[1].id]
                IN Step(j, [job EXCEPT !.at = "done", !.bm = bm, !.posted = TRUE,
                                       !.request = <<>>, !.reply = <<>>],
                        release(bookmarkLock, job.bm.url), pushed(adapter.list, bm))

\* updateBookmark, lines 802-803, and _getBookmark, lines 710-713
UpdateBookmarkCall(j) ==
  LET job == jobs[j]
  IN /\ job.at = "updateBookmark"
     /\ Holds(ToString(job.bm.id), j)
     /\ Step(j, Asks(job, "_getBookmark", Request("item", job.bm.id, "", <<>>)),
             bookmarkLock, adapter.list)

\* _getBookmark, lines 714-730, and updateBookmark, lines 805-823
GotBookmark(j) ==
  LET job == jobs[j]
  IN /\ Answered(j, "_getBookmark")
     /\ LET reply == job.reply[1]
        IN IF reply.threw # "" THEN Fails(j, reply.threw)
           ELSE LET bms == reply.body[1].folders
                    folders == Append(SelectSeq(bms, LAMBDA parentId :
                                   parentId # 0 /\ parentId # job.bm.oldParentId),
                                 job.bm.parentId)
                IN Step(j, Asks(job, "put", Request("put", job.bm.id, job.bm.url, folders)),
                        bookmarkLock, adapter.list)

\* updateBookmark, line 825, and for the updateBookmark of createBookmark
\* lines 787-791 as well
Updated(j) ==
  LET job == jobs[j]
  IN /\ Answered(j, "put")
     /\ LET reply == job.reply[1]
            lock == release(bookmarkLock, ToString(job.bm.id))
            ended == [job EXCEPT !.at = "done", !.request = <<>>, !.reply = <<>>]
        IN IF reply.threw # "" THEN Fails(j, reply.threw)
           ELSE IF job.op = "createBookmark"
           THEN Step(j, ended, release(lock, job.bm.url), pushed(adapter.list, job.bm))
           ELSE Step(j, ended, lock, adapter.list)

\* removeBookmark, lines 835-839
RemoveBookmarkCall(j) ==
  LET job == jobs[j]
  IN /\ job.at = "removeBookmark"
     /\ Holds(ToString(job.bm.id), j)
     /\ Step(j, Asks(job, "delete", Request("delete", job.bm.id, "", <<job.bm.oldParentId>>)),
             bookmarkLock, adapter.list)

\* removeBookmark, line 842, and getBookmarksList, line 246
Deleted(j) ==
  LET job == jobs[j]
  IN /\ Answered(j, "delete")
     /\ LET reply == job.reply[1]
        IN IF reply.threw # "" THEN Fails(j, reply.threw)
           ELSE Step(j, [job EXCEPT !.at = "getBookmarksList", !.caller = "removeBookmark",
                                    !.request = <<>>, !.reply = <<>>],
                     acquire(bookmarkLock, "list", j), adapter.list)

\* the bookmarks a server may hold: each in one folder or more, no two with
\* one url
RECURSIVE StoredBookmarks(_)
StoredBookmarks(n) ==
  IF n = 0 THEN {<<>>}
  ELSE StoredBookmarks(n - 1)
       \cup {Append(l, [id |-> n, title |-> "t", url |-> url, folders |-> fs])
             : l \in {k \in StoredBookmarks(n - 1) : Len(k) = n - 1},
               url \in Urls, fs \in FolderLists(<<[id |-> 1]>>)}

\* an adapter that has been in use: it may have the list of the server's
\* bookmarks, and the existence check may have been found
InitBookmarks ==
  /\ StartOfSync({<<>>}, {<<>>}, LAMBDA lt, st : {RootStore})
  /\ \E l \in StoredBookmarks(MaxServerBookmarks) :
       /\ \A i, k \in 1..Len(l) : i # k => l[i].url # l[k].url
       /\ server = [bookmarks |-> l, nextId |-> Len(l) + 1]
  /\ hasFeatureExistenceCheck \in BOOLEAN
  /\ adapter \in {Constructed, getBookmarksList(Constructed, server, "").adapter}
  /\ bookmarkLock = [k \in Keys |-> <<>>]
  /\ jobs = [j \in Jobs |-> NotCalled]

NextBookmarks ==
  \E j \in Jobs :
    \/ Begin(j)
    \/ Serve(j)
    \/ CreateBookmarkCall(j)
    \/ GetExistingBookmark(j)
    \/ GetBookmarksList(j)
    \/ FetchedList(j)
    \/ Posted(j)
    \/ UpdateBookmarkCall(j)
    \/ GotBookmark(j)
    \/ Updated(j)
    \/ RemoveBookmarkCall(j)
    \/ Deleted(j)

SpecBookmarks == InitBookmarks /\ [][NextBookmarks]_vars

\* the calls of createBookmark, with calls of getBookmarksList among them
NextCreates ==
  \E j \in Jobs :
    \/ BeginCreate(j)
    \/ Serve(j)
    \/ CreateBookmarkCall(j)
    \/ GetExistingBookmark(j)
    \/ GetBookmarksList(j)
    \/ FetchedList(j)
    \/ Posted(j)
    \/ UpdateBookmarkCall(j)
    \/ GotBookmark(j)
    \/ Updated(j)

SpecCreates == InitBookmarks /\ [][NextCreates]_vars

\* the calls for the bookmarks of a server whose bookmarks are all in the root
\* folder
InitAtRoot ==
  /\ InitBookmarks
  /\ \A i \in 1..Len(server.bookmarks) : server.bookmarks[i].folders = <<RootId>>

NextAtRoot ==
  \E j \in Jobs :
    \/ BeginAtRoot(j)
    \/ Serve(j)
    \/ CreateBookmarkCall(j)
    \/ GetExistingBookmark(j)
    \/ GetBookmarksList(j)
    \/ FetchedList(j)
    \/ Posted(j)
    \/ UpdateBookmarkCall(j)
    \/ GotBookmark(j)
    \/ Updated(j)
    \/ RemoveBookmarkCall(j)
    \/ Deleted(j)

\* the fair runs of these calls: every request is answered, and a call that
\* can go on does
SpecBookmarksFair ==
  /\ InitAtRoot /\ [][NextAtRoot]_vars
  /\ \A j \in Jobs :
       /\ WF_vars(Serve(j))
       /\ WF_vars(CreateBookmarkCall(j)) /\ WF_vars(GetExistingBookmark(j))
       /\ WF_vars(GetBookmarksList(j)) /\ WF_vars(FetchedList(j))
       /\ WF_vars(Posted(j)) /\ WF_vars(UpdateBookmarkCall(j))
       /\ WF_vars(GotBookmark(j)) /\ WF_vars(Updated(j))
       /\ WF_vars(RemoveBookmarkCall(j)) /\ WF_vars(Deleted(j))

(***************************************************************************)
(* Properties of the bookmark methods.                                     *)
(***************************************************************************)
\* C27: of two createBookmark calls with one url in progress at the same
\* time, one at most sends a POST that creates a bookmark, and the other,
\* when it returns, has found the bookmark the first created and updated it
OneCreatesTheOtherUpdates ==
  \A j, k \in Jobs :
    /\ j # k
    /\ jobs[j].op = "createBookmark" /\ jobs[k].op = "createBookmark"
    /\ jobs[j].bm.url = jobs[k].bm.url
    /\ jobs[j].posted
    => /\ ~jobs[k].posted
       /\ jobs[k].at = "done" => jobs[k].existing = jobs[j].bm.id

\* the second call waited for the first, which created the bookmark, and
\* found the bookmark in the cached list
FoundInCachedList ==
  \E j, k \in Jobs :
    /\ jobs[j].op = "createBookmark" /\ jobs[j].posted
    /\ jobs[k].op = "createBookmark" /\ jobs[k].waited /\ jobs[k].at = "done"
    /\ jobs[k].bm.url = jobs[j].bm.url
    /\ jobs[k].existing = jobs[j].bm.id
    /\ ~hasFeatureExistenceCheck

\* in this set of calls each waits for a key that another of the set holds
WaitingCycle(C) ==
  /\ C # {}
  /\ \A j \in C : \E k \in C, key \in Keys :
       /\ Holds(key, k)
       /\ \E i \in 2..Len(bookmarkLock[key]) : bookmarkLock[key][i] = j

\* C28: the calls never wait for each other's keys in a cycle, and every
\* call that has been made ends, as long as every request is answered
NoDeadlockOnBookmarkLock ==
  /\ [](\A C \in SUBSET Jobs : ~WaitingCycle(C))
  /\ \A j \in Jobs : (jobs[j].op # "") ~> Ended(jobs[j])

\* a removeBookmark that holds the key of its upstream id waits for the key
\* 'list', which a createBookmark that holds the key of its url has
WaitsForListUnderKey ==
  \E j, k \in Jobs :
    /\ jobs[j].op = "removeBookmark" /\ Holds(ToString(jobs[j].bm.id), j)
    /\ jobs[k].op = "createBookmark" /\ Holds(jobs[k].bm.url, k)
    /\ bookmarkLock["list"] = <<k, j>>

\* the entries of the list whose id is not this one
Others(list, upstreamId) == SelectSeq(list, LAMBDA b : b.id # <<upstreamId>>)

\* C29: removeBookmark takes from the list only an entry with the upstream
\* id of the removed bookmark: every other entry of the list that
\* getBookmarksList gave it is still there after the call
RemoveKeepsOtherEntries ==
  \A j \in Jobs :
    jobs[j].op = "removeBookmark" /\ jobs[j].at = "done" =>
      Others(jobs[j].left, jobs[j].bm.id) = Others(jobs[j].got, jobs[j].bm.id)
====
